---------------------------- MODULE Spec2Model ----------------------------
(***************************************************************************)
(* A model of the read-only SQLite query engine of this repository:        *)
(* the varint codec (app/varint.py), the page accessor and the B-tree      *)
(* walkers (app/page.py, app/btree.py) and the command dispatcher          *)
(* (app/main.py).                                                          *)
(*                                                                         *)
(* The database image is the constant part of the state (the program       *)
(* never writes it); every operation of the program is an action that      *)
(* draws its arguments from small sets and records the call and its        *)
(* result.                                                                 *)
(***************************************************************************)
EXTENDS Integers, Sequences, FiniteSets, TLC

VARIABLES db, call, out

vars == <<db, call, out>>

\* Value of Python's None.
None == "None"

\* The state before any operation has run.
NoCall == [op |-> "none"]

-----------------------------------------------------------------------------
(* Generic helpers: Python sequence idioms used by the code.               *)

\* s[a:b] with 0-based, end-exclusive, clamped bounds (Python slicing).
Slice(s, a, b) ==
    LET lo == IF a < 0 THEN 0 ELSE a
        hi == IF b > Len(s) THEN Len(s) ELSE b
    IN  IF hi <= lo THEN <<>> ELSE SubSeq(s, lo + 1, hi)

\* s[a:]
SliceFrom(s, a) == Slice(s, a, Len(s))

Range(s) == {s[i] : i \in DOMAIN s}

\* w-bit big-endian bit string of n.
Bits(n, w) == [i \in 1..w |-> (n \div (2 ^ (w - i))) % 2]

RECURSIVE StripZeros(_)
\* A bit string without its leading zeros: the canonical form of the integer
\* it denotes (Python integers are unbounded, values here exceed 32 bits).
StripZeros(b) ==
    IF b = <<>> THEN <<>>
    ELSE IF b[1] = 0 THEN StripZeros(Tail(b)) ELSE b

RECURSIVE BitsToNat(_)
\* The integer a (short) bit string denotes.
BitsToNat(b) ==
    IF b = <<>> THEN 0 ELSE 2 * BitsToNat(SubSeq(b, 1, Len(b) - 1)) + b[Len(b)]

-----------------------------------------------------------------------------
(* Varint codec: app/varint.py (the same code is repeated in               *)
(* app/parsers.py Varint.from_data and app/parser.py parse_varint).        *)

\* SQLite varints have at most 9 bytes: `while bytes_read < 9`.
VarintMaxBytes == 9

\* byte & 0b01111111
Low7(byte) == byte % 128

\* A faulty variant of HighBit: the continuation test reads bit 6.
HighBit_Bit6(byte) == (byte \div 64) % 2 = 1

\* byte & 0b10000000
HighBit(byte) == byte \div 128 = 1

\* (value << 7) | (byte & 0b01111111), value kept as a big-endian bit string.
ShiftIn7(value, byte) == value \o Bits(Low7(byte), 7)

\* source[bytes_read] / source.read(1)[0] past the end raises IndexError.
VarintError == [err |-> TRUE, value |-> <<>>, bytes_length |-> 0]

RECURSIVE VarintLoop(_, _, _)
VarintLoop(source, value, bytes_read) ==
    IF bytes_read >= VarintMaxBytes
    THEN [err |-> FALSE, value |-> value, bytes_length |-> bytes_read]
    ELSE IF bytes_read >= Len(source) THEN VarintError
    ELSE LET byte == source[bytes_read + 1]
             v    == ShiftIn7(value, byte)
         IN  IF ~HighBit(byte)
             THEN [err |-> FALSE, value |-> v, bytes_length |-> bytes_read + 1]
             ELSE VarintLoop(source, v, bytes_read + 1)

\* Varint.from_data(source): value is a bit string, compare with StripZeros.
Varint_from_data(source) == VarintLoop(source, <<>>, 0)

-----------------------------------------------------------------------------
(* Database image and page accessor: app/page.py, app/database.py.         *)
(*                                                                         *)
(* An image is [hdr16, hdr17, pages, root]: the two page-size bytes of the *)
(* file header, the pages in file order (pages[n + 1] is the page with     *)
(* 0-based index n) and the 1-based page number of the tree under study.   *)
(* A page is [hdr, rm, ptrs, cells]: the eight leading header bytes, the   *)
(* four bytes 8..11 as a big-endian integer, the cell-pointer array as     *)
(* stored, and the cell found at each in-page offset.  A table leaf cell   *)
(* is [size, rowid, payload], a table interior cell [child, rowid], an     *)
(* index leaf cell [payload], an index interior cell [child, payload].     *)

INTERIOR_INDEX_B_TREE == 2
INTERIOR_TABLE_B_TREE == 5
LEAF_INDEX_B_TREE == 10
LEAF_TABLE_B_TREE == 13

\* An optional value: <<>> is Python's None, <<v>> is v.
Some(v) == <<v>>
Nothing == <<>>

\* Python truthiness of an int-or-None (`if target_row_id:`).
Truthy(x) == x # Nothing /\ x[1] # 0

\* The result of a call that returns an integer or raises.
Ret(v) == [raise |-> FALSE, value |-> v]
Raise == [raise |-> TRUE, value |-> 0]

\* Page(data, page_number) raises on empty data (data[0]); PageType(data[0])
\* raises ValueError on an unknown flag.
NoPage == [raise |-> TRUE]

PageTypes ==
    {INTERIOR_INDEX_B_TREE, INTERIOR_TABLE_B_TREE, LEAF_INDEX_B_TREE,
     LEAF_TABLE_B_TREE}

\* Page.type
PageTypeOf(page) == page.hdr[0]

IsInterior(page) ==
    PageTypeOf(page) \in {INTERIOR_TABLE_B_TREE, INTERIOR_INDEX_B_TREE}

\* Page.rightmost_pointer: int.from_bytes(data[8:12]) on interior pages, else None.
RightmostPointer(page) == IF IsInterior(page) THEN Some(page.rm) ELSE Nothing

\* Page.cell_count: int.from_bytes(data[3:5], "big").
CellCount(page) == page.hdr[3] * 256 + page.hdr[4]

\* Page.cell_pointers: the first cell_count entries of the pointer array
\* (a slice past the end of the page reads as b"" and converts to 0).
CellPointers(page) ==
    [i \in 1..CellCount(page) |->
        IF i \in DOMAIN page.ptrs THEN page.ptrs[i] ELSE 0]

\* The cell at an in-page offset.
CellAt(page, cell_pointer) == page.cells[cell_pointer]

\* Page.get_page(database, page_number) on an image whose page 1 holds no
\* cell that is read through the blob (the blob of page 1 starts at file
\* offset 100, see Page_get_page): a read past the end of the file
\* returns b"" and Page.__init__ raises on data[0]; a negative seek raises.
GetPage(database, page_number) ==
    IF page_number \in 0..(Len(database.pages) - 1)
    THEN IF database.pages[page_number + 1].hdr[0] \in PageTypes
         THEN [database.pages[page_number + 1] EXCEPT !.page_number = page_number]
         ELSE NoPage
    ELSE NoPage

\* Page.get_child_pointer
GetChildPointer(page, cell_pointer) ==
    IF ~IsInterior(page) THEN Raise ELSE Ret(CellAt(page, cell_pointer).child)

\* Page.get_row_id (the value of the varint)
GetRowId(page, cell_pointer) ==
    IF PageTypeOf(page) \in {INTERIOR_TABLE_B_TREE, LEAF_TABLE_B_TREE}
    THEN Ret(CellAt(page, cell_pointer).rowid)
    ELSE Raise

\* A faulty variant of GetRecordSize without the page-type test: on an
\* interior page the varint read at the cell pointer is the first byte of
\* the child pointer, which is zero.
GetRecordSize_NoGuard(page, cell_pointer) ==
    IF IsInterior(page) THEN Ret(0) ELSE Ret(CellAt(page, cell_pointer).size)

\* Page.get_record_size (the value of the varint)
GetRecordSize(page, cell_pointer) ==
    IF PageTypeOf(page) \notin {LEAF_TABLE_B_TREE, LEAF_INDEX_B_TREE}
    THEN Raise
    ELSE Ret(CellAt(page, cell_pointer).size)

-----------------------------------------------------------------------------
(* Visitors of table trees: app/btree.py.                                  *)

\* CellCounter.visit_leaf
CellCounter_visit_leaf(page) == CellCount(page)

\* RecordCollector.visit_leaf: (rowid, payload) of every cell, in
\* cell-pointer order; payload is data[offset : offset + record_size].
RecordCollector_visit_leaf(page) ==
    LET cps == CellPointers(page)
    IN  [i \in 1..Len(cps) |->
            LET cell == CellAt(page, cps[i])
            IN  <<cell.rowid, Slice(cell.payload, 0, cell.size)>>]

VisitLeaf(walker, page) ==
    IF walker = "CellCounter" THEN CellCounter_visit_leaf(page)
    ELSE RecordCollector_visit_leaf(page)

\* BTreeWalker.visit_interior: the table visitors inherit the default,
\* which returns None.
VisitInterior(walker, page) == Nothing

-----------------------------------------------------------------------------
(* walk_btree: app/page.py.  A result is [err, out]: the values yielded,   *)
(* in order, and whether the generator ended by raising.                   *)

Yield(seq) == [err |-> FALSE, out |-> seq]
Raised == [err |-> TRUE, out |-> <<>>]

\* `yield from` of two generators in sequence.
Then(r1, r2) ==
    IF r1.err THEN r1 ELSE [err |-> r2.err, out |-> r1.out \o r2.out]

RECURSIVE BinarySearch(_, _, _, _, _)
\* The while loop of the rowid-directed branch: the 0-based page index it
\* leaves in next_page_number (cell_pointers[left] may raise IndexError).
BinarySearch(page, target_row_id, left, right, next_page_number) ==
    IF ~(left <= right) THEN Ret(next_page_number)
    ELSE
        LET mid == (left + right) \div 2
            cps == CellPointers(page)
            cell_pointer == cps[mid + 1]
            row_id == GetRowId(page, cell_pointer).value
        IN  IF target_row_id <= row_id
            THEN BinarySearch(page, target_row_id, left, mid - 1,
                              GetChildPointer(page, cell_pointer).value - 1)
            ELSE IF mid + 1 >= Len(cps) THEN Raise
            ELSE BinarySearch(page, target_row_id, mid + 1, right,
                              GetChildPointer(page, cps[mid + 2]).value - 1)

\* Has the interior page a right-most pointer (`if page.rightmost_pointer:`)?
HasRightmost(page) == Truthy(RightmostPointer(page))

\* The result of the rowid-directed branch on one page: the 0-based index
\* of the page it recurses into, none when it recurses into no page, or an
\* exception.
StepTo(page_number) == [raise |-> FALSE, next |-> Some(page_number)]
StepNowhere == [raise |-> FALSE, next |-> Nothing]
StepRaises == [raise |-> TRUE, next |-> Nothing]

\* A faulty variant of DirectedStep: the left child of the first cell whose
\* rowid is larger than the target, so a target equal to a cell's rowid
\* goes one child too far right.
DirectedStep_Strict(page, target) ==
    LET cps == CellPointers(page)
        larger == {i \in 1..Len(cps) : target < GetRowId(page, cps[i]).value}
    IN  IF larger = {}
        THEN IF HasRightmost(page) THEN StepTo(RightmostPointer(page)[1] - 1)
             ELSE StepNowhere
        ELSE StepTo(GetChildPointer(
                        page, cps[CHOOSE i \in larger : \A j \in larger : i <= j]).value - 1)

\* The rowid-directed branch of walk_btree (the branch commented "Index
\* scan") on an interior page: the bounds are checked first, then the
\* binary search runs.
DirectedStep(page, target) ==
    LET cps == CellPointers(page)
    IN  IF Len(cps) = 0 THEN StepRaises
        ELSE
            LET first_cell_pointer == cps[1]
                first_row_id == GetRowId(page, first_cell_pointer)
                last_cell_pointer == cps[Len(cps)]
                last_row_id == GetRowId(page, last_cell_pointer)
            IN  IF first_row_id.raise \/ last_row_id.raise THEN StepRaises
                ELSE IF target > last_row_id.value
                THEN IF HasRightmost(page)
                     THEN StepTo(RightmostPointer(page)[1] - 1)
                     ELSE StepNowhere
                ELSE IF target < first_row_id.value
                THEN IF GetChildPointer(page, first_cell_pointer).raise
                     THEN StepRaises
                     ELSE StepTo(GetChildPointer(page, first_cell_pointer).value - 1)
                ELSE
                    LET next_page_number ==
                            BinarySearch(page, target, 0, CellCount(page) - 1, -1)
                    IN  IF next_page_number.raise THEN StepRaises
                        ELSE StepTo(next_page_number.value)

\* The 1-based numbers of the interior pages of an image.
InteriorPages(image) ==
    {p \in 1..Len(image.pages) : IsInterior(image.pages[p])}

\* A faulty variant of FullScanChildren: the right-most pointer is forgotten.
FullScanChildren_NoRightmost(page) ==
    LET cps == CellPointers(page)
    IN  [i \in 1..Len(cps) |-> GetChildPointer(page, cps[i])]

\* The children the full-table scan recurses into, in order: the left child
\* of every cell, then the right-most pointer when there is one.
FullScanChildren(page) ==
    LET cps == CellPointers(page)
    IN  [i \in 1..Len(cps) |-> GetChildPointer(page, cps[i])]
        \o (IF HasRightmost(page) THEN <<Ret(RightmostPointer(page)[1])>> ELSE <<>>)

RECURSIVE walk_btree(_, _, _, _)
walk_btree(page, database, walker, target_row_id) ==
    IF page = NoPage THEN Raised
    ELSE IF PageTypeOf(page) = LEAF_TABLE_B_TREE
    THEN Yield(<<VisitLeaf(walker, page)>>)
    ELSE
        LET result == VisitInterior(walker, page)
            pre == Yield(result)
            cps == CellPointers(page)
            Descend(page_number) ==
                walk_btree(GetPage(database, page_number), database, walker,
                           target_row_id)
            \* Rowid-directed descent: one step, then the page it names.
            Directed ==
                LET step == DirectedStep(page, target_row_id[1])
                IN  IF step.raise THEN Raised
                    ELSE IF step.next = Nothing THEN Yield(<<>>)
                    ELSE Descend(step.next[1])
            \* Full-table scan: every left pointer, then the right-most one.
            children == FullScanChildren(page)
            Cells[i \in 1..(Len(children) + 1)] ==
                IF i > Len(children) THEN Yield(<<>>)
                ELSE IF children[i].raise THEN Raised
                ELSE Then(Descend(children[i].value - 1), Cells[i + 1])
        IN  Then(pre, IF Truthy(target_row_id) THEN Directed ELSE Cells[1])

-----------------------------------------------------------------------------
(* Serial types: app/serial_type.py.                                       *)

\* A faulty variant of SerialType_decode: the reserved codes 10 and 11 are
\* taken for dynamic types.
SerialType_decode_NoReserved(code) ==
    CASE code = 0 -> Ret(0)
      [] code \in 1..4 -> Ret(code)
      [] code = 5 -> Ret(6)
      [] code = 6 -> Ret(8)
      [] code = 7 -> Ret(8)
      [] code = 8 -> Ret(0)
      [] code = 9 -> Ret(0)
      [] OTHER -> Ret((code - 12) \div 2)

\* SQLiteSerialType.decode(code)[1]: the byte length, or ValueError for the
\* codes 10 and 11.
SerialType_decode(code) ==
    CASE code = 0 -> Ret(0)
      [] code \in 1..4 -> Ret(code)
      [] code = 5 -> Ret(6)
      [] code = 6 -> Ret(8)
      [] code = 7 -> Ret(8)
      [] code = 8 -> Ret(0)
      [] code = 9 -> Ret(0)
      [] code >= 12 -> Ret((code - 12) \div 2)
      [] OTHER -> Raise

RECURSIVE FromBytes(_)
\* int.from_bytes(b): big-endian, unsigned; b"" is 0.
FromBytes(b) ==
    IF b = <<>> THEN 0 ELSE 256 * FromBytes(SubSeq(b, 1, Len(b) - 1)) + b[Len(b)]

RECURSIVE BytesLess(_, _)
\* a < b on Python bytes: lexicographic, a proper prefix is smaller.
BytesLess(a, b) ==
    IF b = <<>> THEN FALSE
    ELSE IF a = <<>> THEN TRUE
    ELSE IF a[1] # b[1] THEN a[1] < b[1]
    ELSE BytesLess(Tail(a), Tail(b))

-----------------------------------------------------------------------------
(* Index search: IndexSearcher of app/btree.py, search_index of            *)
(* app/page.py.                                                            *)

\* The cell the file holds at page_size * page_number + cell_pointer.
FileCell(database, page_number, cell_pointer) ==
    database.pages[page_number + 1].cells[cell_pointer]

KeyParseError == [raise |-> TRUE, key |-> <<>>, rowid |-> 0]

RECURSIVE ParseKeySerialTypes(_, _, _, _)
\* The while loop of _parse_key_record: the serial-type lengths read while
\* total_bytes_read < record_header.value, starting one byte before offset.
ParseKeySerialTypes(key_record, offset, header_value, total_bytes_read) ==
    IF ~(total_bytes_read < header_value) THEN [raise |-> FALSE, lens |-> <<>>]
    ELSE
        LET piece == SliceFrom(key_record, offset + total_bytes_read - 1)
            serial_type_varint == Varint_from_data(piece)
            st == SerialType_decode(BitsToNat(serial_type_varint.value))
            rest == ParseKeySerialTypes(key_record, offset, header_value,
                        total_bytes_read + serial_type_varint.bytes_length)
        IN  IF serial_type_varint.err \/ st.raise \/ rest.raise
            THEN [raise |-> TRUE, lens |-> <<>>]
            ELSE [raise |-> FALSE, lens |-> <<st.value>> \o rest.lens]

\* IndexSearcher._parse_key_record(key_record) -> (key, rowid)
ParseKeyRecord(key_record) ==
    LET record_header == Varint_from_data(key_record)
    IN  IF record_header.err THEN KeyParseError
        ELSE
            LET types == ParseKeySerialTypes(key_record, record_header.bytes_length,
                                             BitsToNat(record_header.value), 0)
            IN  IF types.raise \/ Len(types.lens) < 3 THEN KeyParseError
                ELSE
                    LET o1 == types.lens[1]
                        o2 == o1 + types.lens[2]
                        o3 == o2 + types.lens[3]
                    IN  [raise |-> FALSE,
                         key |-> Slice(key_record, o1, o2),
                         rowid |-> FromBytes(Slice(key_record, o2, o3))]

\* The (key, rowid) of the cell at a cell pointer: payload-size varint, then
\* f.read(payload_size), then _parse_key_record.
ReadKey(database, page, cell_pointer) ==
    LET cell == FileCell(database, page.page_number, cell_pointer)
    IN  ParseKeyRecord(Slice(cell.payload, 0, cell.size))

\* The parsed cells of a page, in cell-pointer order.
ReadKeys(database, page) ==
    LET cps == CellPointers(page)
    IN  [i \in 1..Len(cps) |-> ReadKey(database, page, cps[i])]

RECURSIVE MatchSweep(_, _, _)
\* The equality-collect-and-stop sweep over parsed cells from position i:
\* append (key, rowid) when key == search_key, stop after a key > search_key.
\* A cell that does not parse raises when the sweep reaches it.
MatchSweep(parsed, search_key, i) ==
    IF i > Len(parsed) THEN [raise |-> FALSE, records |-> <<>>]
    ELSE IF parsed[i].raise THEN [raise |-> TRUE, records |-> <<>>]
    ELSE IF BytesLess(search_key, parsed[i].key)
    THEN [raise |-> FALSE, records |-> <<>>]
    ELSE
        LET rest == MatchSweep(parsed, search_key, i + 1)
            here == IF parsed[i].key = search_key
                    THEN <<<<parsed[i].key, parsed[i].rowid>>>> ELSE <<>>
        IN  [raise |-> rest.raise, records |-> here \o rest.records]

\* IndexSearcher.visit_leaf
IndexSearcher_visit_leaf(database, page, search_key) ==
    MatchSweep(ReadKeys(database, page), search_key, 1)

\* IndexSearcher.visit_interior: every cell is parsed first, then swept.
IndexSearcher_visit_interior(database, page, search_key) ==
    LET parsed == ReadKeys(database, page)
    IN  IF \E i \in 1..Len(parsed) : parsed[i].raise
        THEN [raise |-> TRUE, records |-> <<>>]
        ELSE MatchSweep(parsed, search_key, 1)

\* A faulty variant of AnalyzeKeys: the sweep stops at the first key that
\* is not smaller than the search key, so later equal keys are not followed.
AnalyzeKeys_FirstOnly(keys, search_key, i) ==
    LET reached == {j \in (i + 1)..Len(keys) : ~BytesLess(keys[j], search_key)}
    IN  IF reached = {} THEN <<-1>>
        ELSE <<(CHOOSE j \in reached : \A k \in reached : j <= k) - 1>>

RECURSIVE AnalyzeKeys(_, _, _)
\* The `for i, key in enumerate(keys)` loop of choose_paths from index i
\* (0-based): the paths appended, ending with -1 when no larger key is found.
AnalyzeKeys(keys, search_key, i) ==
    IF i >= Len(keys) THEN <<-1>>
    ELSE IF BytesLess(search_key, keys[i + 1]) THEN <<i>>
    ELSE IF search_key = keys[i + 1]
    THEN <<i>> \o AnalyzeKeys(keys, search_key, i + 1)
    ELSE AnalyzeKeys(keys, search_key, i + 1)

\* IndexSearcher.choose_paths: 0-based cell indices, -1 for the right-most
\* pointer.
IndexSearcher_choose_paths(database, page, search_key) ==
    LET parsed == ReadKeys(database, page)
        keys == [i \in 1..Len(parsed) |-> parsed[i].key]
    IN  IF (\E i \in 1..Len(parsed) : parsed[i].raise) \/ Len(keys) = 0
        THEN [raise |-> TRUE, paths |-> <<>>]
        ELSE IF BytesLess(search_key, keys[1])
        THEN [raise |-> FALSE, paths |-> <<0>>]
        ELSE IF BytesLess(keys[Len(keys)], search_key)
        THEN [raise |-> FALSE, paths |-> <<-1>>]
        ELSE [raise |-> FALSE, paths |-> AnalyzeKeys(keys, search_key, 0)]

\* The page a chosen path leads to: the child of the cell at a 0-based
\* index, or the page at the right-most pointer for -1.
IndexChild(page, database, child_idx) ==
    IF child_idx = -1
    THEN IF ~HasRightmost(page) THEN NoPage
         ELSE GetPage(database, RightmostPointer(page)[1] - 1)
    ELSE GetPage(database,
                 FileCell(database, page.page_number,
                          CellPointers(page)[child_idx + 1]).child - 1)

RECURSIVE search_index(_, _, _)
RECURSIVE SearchPaths(_, _, _, _, _)
\* The `for child_idx in child_idxs` loop of search_index from position i.
SearchPaths(page, database, search_key, paths, i) ==
    IF i > Len(paths) THEN Yield(<<>>)
    ELSE Then(search_index(IndexChild(page, database, paths[i]), database, search_key),
              SearchPaths(page, database, search_key, paths, i + 1))

search_index(page, database, search_key) ==
    IF page = NoPage THEN Raised
    ELSE IF PageTypeOf(page) = LEAF_INDEX_B_TREE
    THEN LET result == IndexSearcher_visit_leaf(database, page, search_key)
         IN  IF result.raise THEN Raised ELSE Yield(<<result.records>>)
    ELSE
        LET result == IndexSearcher_visit_interior(database, page, search_key)
            child_idxs == IndexSearcher_choose_paths(database, page, search_key)
            \* `if result := ...`: an empty list is not yielded.
            pre == IF result.records # <<>> THEN Yield(<<result.records>>)
                   ELSE Yield(<<>>)
        IN  IF result.raise THEN Raised
            ELSE IF child_idxs.raise THEN Then(pre, Raised)
            ELSE Then(pre, SearchPaths(page, database, search_key, child_idxs.paths, 1))

-----------------------------------------------------------------------------
(* Well-formed database images (the file-format rules of spec section 3    *)
(* and of the comments of app/page.py): cell pointers in key order, the    *)
(* cells anywhere in the content area, every interior page with at least   *)
(* one cell and a right-most pointer, all leaves at the same depth.        *)

MaxRowid == 4

\* In-page offset of the k-th of n cells (k in key order).  SQLite fills the
\* content area from the end of the page ("desc"); a rebuilt page may hold
\* its cells in ascending order ("asc").
Layouts == {"asc", "desc"}
CellOffset(layout, n, k) == IF layout = "asc" THEN 100 + 10 * k ELSE 200 - 10 * k

MinOffset(layout, n) ==
    IF n = 0 THEN 0
    ELSE IF layout = "asc" THEN CellOffset(layout, n, 1) ELSE CellOffset(layout, n, n)

\* The eight leading bytes of a page header.
PageHeader(type, n, content) ==
    [i \in 0..7 |->
        CASE i = 0 -> type
          [] i = 3 -> n \div 256
          [] i = 4 -> n % 256
          [] i = 5 -> content \div 256
          [] i = 6 -> content % 256
          [] OTHER -> 0]

\* A page of the given type holding the given cells, in key order.
MakePage(type, cellseq, rm, layout, page_number) ==
    LET n == Len(cellseq)
        offs == {CellOffset(layout, n, k) : k \in 1..n}
    IN  [hdr |-> PageHeader(type, n, MinOffset(layout, n)),
         rm |-> rm,
         ptrs |-> [k \in 1..n |-> CellOffset(layout, n, k)],
         cells |-> [o \in offs |->
                      cellseq[CHOOSE k \in 1..n : CellOffset(layout, n, k) = o]],
         page_number |-> page_number]

RECURSIVE SortedSeq(_)
\* The elements of a set of integers in ascending order.
SortedSeq(S) ==
    IF S = {} THEN <<>>
    ELSE LET m == CHOOSE x \in S : \A y \in S : x <= y
         IN  <<m>> \o SortedSeq(S \ {m})

\* s cut after the positions of C: consecutive non-empty chunks.
Chunks(s, C) ==
    LET cs == SortedSeq(C)
        m == Len(cs) + 1
    IN  [i \in 1..m |->
            SubSeq(s, IF i = 1 THEN 1 ELSE cs[i - 1] + 1,
                      IF i = m THEN Len(s) ELSE cs[i])]

Chunkings(s) == {Chunks(s, C) : C \in SUBSET (1..(Len(s) - 1))}

\* The payload stored with rowid r in the table-walk images.
PayloadOf(r) == <<100 + r>>

LeafCell(r) == [size |-> 1, rowid |-> r, payload |-> PayloadOf(r)]

\* Page 1 of the table-walk images: an empty schema leaf.
EmptySchemaPage == MakePage(LEAF_TABLE_B_TREE, <<>>, 0, "asc", 0)

\* A table whose root (page 2) is a leaf.
Depth1Image(rows, layout) ==
    [hdr16 |-> 2, hdr17 |-> 0, root |-> 2,
     pages |-> <<EmptySchemaPage,
                 MakePage(LEAF_TABLE_B_TREE, [i \in 1..Len(rows) |-> LeafCell(rows[i])],
                          0, layout, 1)>>]

\* An interior table page over the chunks lo..hi of `parts`, whose i-th
\* child is the page numbered first + i - lo; `last` gives the largest
\* rowid under a chunk, `head` the smallest.
InteriorTablePage(lo, hi, first, last, head, slack, layout, page_number) ==
    MakePage(INTERIOR_TABLE_B_TREE,
             [i \in 1..(hi - lo) |->
                 [child |-> first + i - 1,
                  rowid |-> IF slack THEN head[lo + i] - 1 ELSE last[lo + i - 1]]],
             first + hi - lo, layout, page_number)

\* A table whose root (page 2) is interior over the leaves (pages 3..).
Depth2Image(leaves, slack, layout) ==
    LET m == Len(leaves)
        last == [j \in 1..m |-> leaves[j][Len(leaves[j])]]
        head == [j \in 1..m |-> leaves[j][1]]
    IN  [hdr16 |-> 2, hdr17 |-> 0, root |-> 2,
         pages |->
            <<EmptySchemaPage,
              InteriorTablePage(1, m, 3, last, head, slack, layout, 1)>>
            \o [j \in 1..m |->
                  MakePage(LEAF_TABLE_B_TREE,
                           [i \in 1..Len(leaves[j]) |-> LeafCell(leaves[j][i])],
                           0, layout, 1 + j)]]

\* A table of depth three: the root (page 2) over interior pages (pages
\* 3..2+q), each over a group of consecutive leaves (pages 3+q..).
Depth3Image(leaves, groups, slack, layout) ==
    LET m == Len(leaves)
        q == Len(groups)
        last == [j \in 1..m |-> leaves[j][Len(leaves[j])]]
        head == [j \in 1..m |-> leaves[j][1]]
        glast == [k \in 1..q |-> last[groups[k][Len(groups[k])]]]
        ghead == [k \in 1..q |-> head[groups[k][1]]]
    IN  [hdr16 |-> 2, hdr17 |-> 0, root |-> 2,
         pages |->
            <<EmptySchemaPage,
              InteriorTablePage(1, q, 3, glast, ghead, slack, layout, 1)>>
            \o [k \in 1..q |->
                  InteriorTablePage(groups[k][1], groups[k][Len(groups[k])],
                                    2 + q + groups[k][1], last, head, slack,
                                    layout, 1 + k)]
            \o [j \in 1..m |->
                  MakePage(LEAF_TABLE_B_TREE,
                           [i \in 1..Len(leaves[j]) |-> LeafCell(leaves[j][i])],
                           0, layout, 1 + q + j)]]

\* Every well-formed table image over the rowids 0..MaxRowid.
TableImages ==
    LET RowSeqs == {SortedSeq(S) : S \in SUBSET (0..MaxRowid)}
    IN  {Depth1Image(rows, layout) : rows \in RowSeqs, layout \in Layouts}
        \cup
        UNION {{Depth2Image(leaves, slack, layout) :
                    leaves \in {c \in Chunkings(rows) : Len(c) >= 2},
                    slack \in BOOLEAN, layout \in Layouts} :
               rows \in {r \in RowSeqs : Len(r) >= 2}}
        \cup
        UNION {UNION {{Depth3Image(leaves, groups, slack, layout) :
                          groups \in {g \in Chunkings([j \in 1..Len(leaves) |-> j]) :
                                         /\ Len(g) >= 2
                                         /\ \A k \in 1..Len(g) : Len(g[k]) >= 2},
                          slack \in BOOLEAN, layout \in Layouts} :
                      leaves \in {c \in Chunkings(rows) : Len(c) >= 4}} :
               rows \in {r \in RowSeqs : Len(r) >= 4}}

-----------------------------------------------------------------------------
(* Specification of the table walker: one traversal of the tree rooted at  *)
(* db.root per run.                                                        *)

InitWalk ==
    /\ db \in TableImages
    /\ call = NoCall
    /\ out = None

RootPage == GetPage(db, db.root - 1)

\* list(walk_btree(root, database, RecordCollector()))
FullScan ==
    /\ call = NoCall
    /\ call' = [op |-> "scan"]
    /\ out' = walk_btree(RootPage, db, "RecordCollector", Nothing)
    /\ UNCHANGED db

\* list(walk_btree(root, database, RecordCollector(), target_row_id))
Lookup ==
    /\ call = NoCall
    /\ \E target \in 0..(MaxRowid + 1) :
        /\ call' = [op |-> "lookup", target |-> target]
        /\ out' = walk_btree(RootPage, db, "RecordCollector", Some(target))
    /\ UNCHANGED db

\* sum(walk_btree(root, database, CellCounter()))
CountCells ==
    /\ call = NoCall
    /\ call' = [op |-> "count"]
    /\ out' = walk_btree(RootPage, db, "CellCounter", Nothing)
    /\ UNCHANGED db

\* The rowid-directed branch of walk_btree on one interior page of the
\* tree, with a truthy target (the branch is not entered with 0 or None).
DirectedStepCall ==
    /\ call = NoCall
    /\ \E p \in InteriorPages(db), target \in 1..(MaxRowid + 1) :
        /\ call' = [op |-> "step", page |-> p, target |-> target]
        /\ out' = DirectedStep(GetPage(db, p - 1), target)
    /\ UNCHANGED db

NextWalk == FullScan \/ Lookup \/ CountCells \/ DirectedStepCall

SpecWalk == InitWalk /\ [][NextWalk]_vars

-----------------------------------------------------------------------------
(* Properties of the table walker.                                         *)

RECURSIVE Flatten(_)
\* The concatenation of the lists a traversal yielded.
Flatten(lists) ==
    IF lists = <<>> THEN <<>> ELSE Head(lists) \o Flatten(Tail(lists))

\* The 1-based numbers of the pages linked from a page.
LinkedPages(page) ==
    IF IsInterior(page)
    THEN {page.cells[o].child : o \in DOMAIN page.cells} \cup {page.rm}
    ELSE {}

RECURSIVE PagesUnder(_, _, _)
\* The 1-based numbers of the pages reachable from the pages P of an image
\* within n links.
PagesUnder(image, P, n) ==
    IF n = 0 THEN P
    ELSE PagesUnder(image,
                    P \cup UNION {LinkedPages(image.pages[p]) :
                                      p \in P \cap DOMAIN image.pages},
                    n - 1)

\* The leaf-table pages under the root of an image.
LeavesUnderRoot(image) ==
    {p \in PagesUnder(image, {image.root}, Len(image.pages)) \cap DOMAIN image.pages :
        image.pages[p].hdr[0] = LEAF_TABLE_B_TREE}

\* The (rowid, payload) pairs stored in the leaves under the root.
StoredRecords(image) ==
    UNION {{<<image.pages[p].cells[o].rowid, image.pages[p].cells[o].payload>> :
                o \in DOMAIN image.pages[p].cells} : p \in LeavesUnderRoot(image)}

StoredRowids(image) == {r[1] : r \in StoredRecords(image)}

\* C1: a full scan (walk_btree on the root with no target rowid and a
\* RecordCollector) finishes without error and the rowids of the records it
\* yields are exactly the rowids stored in the leaves under the root.
C1_ScanComplete ==
    call.op = "scan" =>
        /\ ~out.err
        /\ {r[1] : r \in Range(Flatten(out.out))} = StoredRowids(db)

\* A scan of a tree of depth three holding every rowid of the range.
C1_Witness ==
    /\ call.op = "scan"
    /\ Len(db.pages) >= 8
    /\ StoredRowids(db) = 0..MaxRowid
    /\ Len(out.out) >= 4

\* The walker itself keeps the order of the cell-pointer arrays: the records
\* a full scan yields are in strictly ascending rowid order (see C2 for the
\* scan of app/main.py).
WalkScanAscending ==
    call.op = "scan" =>
        LET recs == Flatten(out.out)
        IN  \A i \in 1..(Len(recs) - 1) : recs[i][1] < recs[i + 1][1]

\* C3 (as claimed): walk_btree with target_row_id = R returns exactly the
\* single record stored at R when R is stored (0 included), and nothing when
\* R is not stored.
C3_LookupExact ==
    call.op = "lookup" =>
        /\ ~out.err
        /\ Flatten(out.out) =
              IF call.target \in StoredRowids(db)
              THEN <<<<call.target, PayloadOf(call.target)>>>>
              ELSE <<>>

\* What the code does instead: a non-zero target yields the whole leaf on
\* the descent path for R, so a stored R is among the records returned; the
\* target 0 is falsy and runs the full scan.
LookupYieldsLeaf ==
    call.op = "lookup" =>
        /\ ~out.err
        /\ call.target \in StoredRowids(db) =>
              <<call.target, PayloadOf(call.target)>> \in Range(Flatten(out.out))
        /\ call.target # 0 => Len(out.out) <= 1
        /\ call.target = 0 =>
              out = walk_btree(RootPage, db, "RecordCollector", Nothing)

-----------------------------------------------------------------------------
(* Well-formed index images: a single-column text index, possibly          *)
(* non-unique.  Entries are sorted by (key, rowid); interior cells hold    *)
(* entries of their own, between the entries of their neighbour subtrees.  *)

MaxIdxEntries == 7

\* The keys "a", "b", "ba" (bytes), in ascending order.
IdxKeys == <<(<<97>>), (<<98>>), (<<98, 97>>)>>

\* Search keys: the stored keys and "ab", which is never stored.
SearchKeys == Range(IdxKeys) \cup {<<97, 98>>}

\* The serial type and the bytes SQLite stores for a small non-negative
\* integer: 0 and 1 are the zero-length types 8 and 9, 2..127 one byte.
IntSerialType(v) == IF v = 0 THEN 8 ELSE IF v = 1 THEN 9 ELSE 1
IntBytes(v) == IF v \in {0, 1} THEN <<>> ELSE <<v>>

\* The record of an index entry: header size, text serial type of the key,
\* integer serial type of the rowid, then the two values.
IndexRecord(key, rowid) ==
    <<3, 13 + 2 * Len(key), IntSerialType(rowid)>> \o key \o IntBytes(rowid)

IndexLeafCell(e) ==
    [size |-> Len(IndexRecord(e.key, e.rowid)),
     payload |-> IndexRecord(e.key, e.rowid)]

IndexInteriorCell(e, child) ==
    [child |-> child, size |-> Len(IndexRecord(e.key, e.rowid)),
     payload |-> IndexRecord(e.key, e.rowid)]

\* The sorted entries of an index with count[i] entries of key IdxKeys[i].
\* Rowids ascend with the position ("fwd"), or the larger keys belong to the
\* older rows ("rev"); either way they ascend among equal keys.
IndexEntries(count, rowmode) ==
    LET n == count[1] + count[2] + count[3]
        KeyAt(i) == IF i <= count[1] THEN 1
                    ELSE IF i <= count[1] + count[2] THEN 2 ELSE 3
        Before(k) == IF k = 1 THEN 0
                     ELSE IF k = 2 THEN count[1] ELSE count[1] + count[2]
        After(k) == n - Before(k) - count[k]
    IN  [i \in 1..n |->
            [key |-> IdxKeys[KeyAt(i)],
             rowid |-> IF rowmode = "fwd" THEN i
                       ELSE After(KeyAt(i)) + (i - Before(KeyAt(i)))]]

\* An interior index page over entries[lo..hi] whose cells are the entries
\* at the positions seps and whose i-th child is page first + i - 1.
IndexInteriorPage(entries, seps, first, layout, page_number) ==
    MakePage(INTERIOR_INDEX_B_TREE,
             [i \in 1..Len(seps) |-> IndexInteriorCell(entries[seps[i]], first + i - 1)],
             first + Len(seps), layout, page_number)

IndexLeafPage(entries, lo, hi, layout, page_number) ==
    MakePage(LEAF_INDEX_B_TREE,
             [i \in 1..(hi - lo + 1) |-> IndexLeafCell(entries[lo + i - 1])],
             0, layout, page_number)

\* The i-th of the segments that the positions seps cut lo..hi into.
SegLo(seps, lo, i) == IF i = 1 THEN lo ELSE seps[i - 1] + 1
SegHi(seps, hi, i) == IF i = Len(seps) + 1 THEN hi ELSE seps[i] - 1

\* Separator positions inside lo..hi that leave every segment non-empty.
SepSets(lo, hi) ==
    {SortedSeq(P) : P \in {Q \in SUBSET ((lo + 1)..(hi - 1)) :
                              /\ Q # {}
                              /\ \A x \in Q : x + 1 \notin Q}}

\* An index whose root (page 2) is a leaf.
IndexDepth1Image(entries, layout) ==
    [hdr16 |-> 2, hdr17 |-> 0, root |-> 2,
     pages |-> <<EmptySchemaPage,
                 IndexLeafPage(entries, 1, Len(entries), layout, 1)>>]

\* An index whose root (page 2) is interior over leaves (pages 3..).
IndexDepth2Image(entries, seps, layout) ==
    [hdr16 |-> 2, hdr17 |-> 0, root |-> 2,
     pages |-> <<EmptySchemaPage,
                 IndexInteriorPage(entries, seps, 3, layout, 1)>>
               \o [i \in 1..(Len(seps) + 1) |->
                     IndexLeafPage(entries, SegLo(seps, 1, i),
                                   SegHi(seps, Len(entries), i), layout, 1 + i)]]

\* An index of depth three: the root (page 2) over interior pages (pages
\* 3..2+q), the k-th of them with the one cell at mid[k] over two leaves
\* (pages 1+q+2k and 2+q+2k).
IndexDepth3Image(entries, seps, mid, layout) ==
    LET n == Len(entries)
        q == Len(seps) + 1
    IN  [hdr16 |-> 2, hdr17 |-> 0, root |-> 2,
         pages |-> <<EmptySchemaPage,
                     IndexInteriorPage(entries, seps, 3, layout, 1)>>
                   \o [k \in 1..q |->
                         IndexInteriorPage(entries, <<mid[k]>>, 1 + q + 2 * k,
                                           layout, 1 + k)]
                   \o [j \in 1..(2 * q) |->
                         LET k == (j + 1) \div 2
                         IN  IF j % 2 = 1
                             THEN IndexLeafPage(entries, SegLo(seps, 1, k),
                                                mid[k] - 1, layout, 1 + q + j)
                             ELSE IndexLeafPage(entries, mid[k] + 1,
                                                SegHi(seps, n, k), layout, 1 + q + j)]]

\* Root separators of a depth-three index: every segment has room for an
\* interior page with one cell and two non-empty leaves.
RootSepSets(n) ==
    {seps \in SepSets(1, n) :
        \A k \in 1..(Len(seps) + 1) : SegHi(seps, n, k) - SegLo(seps, 1, k) >= 2}

\* The cell of the k-th second-level page: the second or the last-but-one
\* entry of its segment.
MidChoices(seps, n) ==
    {[k \in 1..(Len(seps) + 1) |->
          IF first THEN SegLo(seps, 1, k) + 1 ELSE SegHi(seps, n, k) - 1] :
     first \in BOOLEAN}

IndexEntryLists ==
    {IndexEntries(count, rowmode) :
        count \in {c \in [1..3 -> 0..MaxIdxEntries] : c[1] + c[2] + c[3] <= MaxIdxEntries},
        rowmode \in {"fwd", "rev"}}

IndexImages ==
    {IndexDepth1Image(entries, "desc") : entries \in IndexEntryLists}
    \cup
    UNION {{IndexDepth2Image(entries, seps, "desc") :
                seps \in SepSets(1, Len(entries))} :
           entries \in {e \in IndexEntryLists : Len(e) >= 3}}
    \cup
    UNION {UNION {{IndexDepth3Image(entries, seps, mid, "desc") :
                      mid \in MidChoices(seps, Len(entries))} :
                  seps \in RootSepSets(Len(entries))} :
           entries \in {e \in IndexEntryLists : Len(e) >= 7}}

-----------------------------------------------------------------------------
(* Specification of the index search: one search of the index rooted at    *)
(* db.root per run.                                                        *)

InitIndex ==
    /\ db \in IndexImages
    /\ call = NoCall
    /\ out = None

\* list(search_index(root, database, IndexSearcher(database, search_key)))
SearchIndex ==
    /\ call = NoCall
    /\ \E search_key \in SearchKeys :
        /\ call' = [op |-> "search", key |-> search_key]
        /\ out' = search_index(RootPage, db, search_key)
    /\ UNCHANGED db

\* IndexSearcher(database, search_key).choose_paths(page) on one interior
\* page of the index.
ChoosePaths ==
    /\ call = NoCall
    /\ \E p \in InteriorPages(db), search_key \in SearchKeys :
        /\ call' = [op |-> "paths", page |-> p, key |-> search_key]
        /\ out' = IndexSearcher_choose_paths(db, GetPage(db, p - 1), search_key)
    /\ UNCHANGED db

NextIndex == SearchIndex \/ ChoosePaths

SpecIndex == InitIndex /\ [][NextIndex]_vars

-----------------------------------------------------------------------------
(* Properties of the index search.                                         *)

\* The (key, rowid) a well-formed single-column index record denotes, read
\* by the record format: the values start after the header, whose size is
\* the first byte; serial types 8 and 9 are the integers 0 and 1.
DenotedEntry(payload) ==
    LET h == payload[1]
        klen == (payload[2] - 13) \div 2
        st == payload[3]
    IN  <<Slice(payload, h, h + klen),
          IF st = 8 THEN 0
          ELSE IF st = 9 THEN 1
          ELSE FromBytes(Slice(payload, h + klen, h + klen + SerialType_decode(st).value))>>

\* The index pages (leaf and interior) under the root of an image.
IndexPagesUnderRoot(image) ==
    PagesUnder(image, {image.root}, Len(image.pages)) \cap DOMAIN image.pages

\* The entries stored in the cells of the index pages under the root.
StoredEntries(image) ==
    UNION {{DenotedEntry(image.pages[p].cells[o].payload) :
                o \in DOMAIN image.pages[p].cells} : p \in IndexPagesUnderRoot(image)}

\* C4 (as claimed): the search yields the rowid of every stored entry (leaf
\* or interior cell) whose key equals K and no rowid of any other entry.
C4_SearchExact ==
    call.op = "search" =>
        /\ ~out.err
        /\ {r[2] : r \in Range(Flatten(out.out))} =
              {e[2] : e \in {x \in StoredEntries(db) : x[1] = call.key}}

\* What holds of the code: the search visits exactly the cells whose key
\* equals K (one result per stored entry with that key, and each result
\* carries the key K), and the rowid it reports is right whenever the entry
\* stores its rowid in at least one byte (rowid >= 2).
SearchFindsCells ==
    call.op = "search" =>
        LET found == Flatten(out.out)
            stored == {x \in StoredEntries(db) : x[1] = call.key}
        IN  /\ ~out.err
            /\ Len(found) = Cardinality(stored)
            /\ \A i \in 1..Len(found) : found[i][1] = call.key
            /\ {e[2] : e \in stored} \ {1} = {r[2] : r \in Range(found)} \ {0}

-----------------------------------------------------------------------------
(* The command dispatcher: app/main.py.  It reads the schema page and the  *)
(* root page of the table itself; it does not call the walkers above.      *)
(*                                                                         *)
(* In the images of this part a schema cell's payload is the five column   *)
(* values <<type, name, tbl_name, rootpage, columns>> (columns standing    *)
(* for the sql text, as SQL.from_query reads it) and a table cell's        *)
(* payload is the row's column values as text, in declaration order.       *)

\* The strings of the model in Python's (code point) order.
StringOrder ==
    <<"", "RED", "Red", "apples", "color", "count(*)", "fuji", "gala", "honey",
      "id", "idared", "idx_apples_color", "index", "name", "oranges", "pears",
      "pink", "red", "table">>

StrRank(str) == CHOOSE i \in 1..Len(StringOrder) : StringOrder[i] = str

\* str.lower()
Lower(str) == IF str \in {"RED", "Red"} THEN "red" ELSE str

RECURSIVE InsertSorted(_, _, _)
\* seq (sorted by rank) with x inserted after the elements not greater.
InsertSorted(seq, x, rank) ==
    IF seq = <<>> THEN <<x>>
    ELSE IF rank[x] < rank[Head(seq)] THEN <<x>> \o seq
    ELSE <<Head(seq)>> \o InsertSorted(Tail(seq), x, rank)

RECURSIVE SortBy(_, _)
\* list.sort() / sorted(): stable, ascending by rank (a function on the
\* elements).
SortBy(seq, rank) ==
    IF seq = <<>> THEN <<>>
    ELSE InsertSorted(SortBy(SubSeq(seq, 1, Len(seq) - 1), rank), seq[Len(seq)], rank)

RECURSIVE Join(_, _)
\* sep.join(strs)
Join(sep, strs) ==
    IF strs = <<>> THEN ""
    ELSE IF Len(strs) = 1 THEN strs[1]
    ELSE strs[1] \o sep \o Join(sep, Tail(strs))

\* A faulty variant of get_page_size: the two bytes read little-endian.
get_page_size_LittleEndian(image) == image.hdr17 * 256 + image.hdr16

\* get_page_size: int.from_bytes of the file bytes 16..17, big-endian.
get_page_size(image) == image.hdr16 * 256 + image.hdr17

\* get_cell_count_from_page: int.from_bytes(page[3:5], "big").
get_cell_count_from_page(page) == CellCount(page)

\* get_cell_count: the page read at file offset 100.
get_cell_count(image) == get_cell_count_from_page(image.pages[1])

\* get_cell_pointers: the first cell_count pointers, then cell_pointers.sort().
get_cell_pointers(page, cell_count) ==
    LET pointers == [i \in 1..cell_count |->
                        IF i \in DOMAIN page.ptrs THEN page.ptrs[i] ELSE 0]
    IN  SortBy(pointers, [x \in Range(pointers) |-> x])

\* _get_records: the payload of the cell at start + cell_pointer, for every
\* pointer get_cell_pointers returns (start is page_size * page_number).
GetRecords(image, page_number, cell_count) ==
    LET cps == get_cell_pointers(image.pages[page_number + 1], cell_count)
    IN  [i \in 1..Len(cps) |->
            LET cell == FileCell(image, page_number, cps[i])
            IN  Slice(cell.payload, 0, cell.size)]

\* SqliteSchemaRecord.from_record, on the column values.
SchemaRecord(data) ==
    [record_type |-> data[1], name |-> data[2], table_name |-> data[3],
     rootpage |-> data[4], sql |-> data[5]]

\* get_records_for_sqlite_schema_table
get_records_for_sqlite_schema_table(image) ==
    LET records == GetRecords(image, 0, get_cell_count(image))
    IN  [i \in 1..Len(records) |-> SchemaRecord(records[i])]

\* UserTableRecord.from_record of app/parsers.py: the i-th declared column
\* is paired with the i-th stored value.
UserTableRecord(data, table_columns) ==
    [c \in Range(table_columns) |->
        data[CHOOSE i \in 1..Len(table_columns) :
                 /\ table_columns[i] = c
                 /\ \A j \in (i + 1)..Len(table_columns) : table_columns[j] # c]]

\* The output of a command: the lines printed and whether it ended with an
\* uncaught exception.
Printed(lines) == [err |-> FALSE, lines |-> lines]
Failed(lines) == [err |-> TRUE, lines |-> lines]

\* main, command ".dbinfo"
DbInfoOutput(image) ==
    Printed(<<<<"database page size: ", get_page_size(image)>>,
              <<"number of tables: ", get_cell_count(image)>>>>)

\* table_names = [record.table_name for record in records]
TableNames(records) == [i \in 1..Len(records) |-> records[i].table_name]

\* main, command ".tables"
TablesOutput(image) ==
    LET records == get_records_for_sqlite_schema_table(image)
        names == TableNames(records)
        table_names == SortBy(names, [x \in Range(names) |-> StrRank(x)])
    IN  Printed(<<Join(" ", table_names)>>)

\* _find(l, value): l.index(value), or -1.
Find(l, value) ==
    IF value \in Range(l)
    THEN (CHOOSE i \in 1..Len(l) : l[i] = value /\ \A j \in 1..(i - 1) : l[j] # value) - 1
    ELSE -1

\* where.get(col)
WhereGet(where, col) ==
    IF where # Nothing /\ where[1].col = col THEN Some(where[1].val) ELSE Nothing

\* The filter of the SELECT loop: the row is skipped when any declared
\* column has a comparison and value.lower() != comparison.lower().
RowPasses(columns, record, where) ==
    ~\E i \in 1..Len(columns) :
        LET comparison == WhereGet(where, columns[i])
        IN  comparison # Nothing /\ Lower(record[columns[i]]) # Lower(comparison[1])

\* A faulty variant of ProjectLine: the values are joined in declaration
\* order.
ProjectLine_DeclaredOrder(columns, record, select_columns) ==
    LET wanted == SelectSeq(columns, LAMBDA c : c \in Range(select_columns))
    IN  Join("|", [i \in 1..Len(wanted) |-> record[wanted[i]]])

\* The projection of the SELECT loop: the declared columns sorted by their
\* position in the user's column list, those not listed dropped, the values
\* joined with "|".
ProjectLine(columns, record, select_columns) ==
    LET sorted_columns ==
            SortBy(columns, [c \in Range(columns) |-> Find(select_columns, c)])
        wanted == SelectSeq(sorted_columns, LAMBDA c : c \in Range(select_columns))
    IN  Join("|", [i \in 1..Len(wanted) |-> record[wanted[i]]])

\* The rows of the SELECT loop that pass the filter, in the order read.
SelectedRecords(image, page_number, columns, where) ==
    LET page == image.pages[page_number + 1]
        datas == GetRecords(image, page_number, get_cell_count_from_page(page))
        records == [i \in 1..Len(datas) |-> UserTableRecord(datas[i], columns)]
    IN  SelectSeq(records, LAMBDA r : RowPasses(columns, r, where))

\* The generator handed to next() in the SELECT branch: the schema records
\* with record.table_name == user_command_sql.table, in the order
\* get_records_for_sqlite_schema_table yields them; next() takes the first
\* and raises StopIteration when there is none.
SchemaMatches(image, sql) ==
    SelectSeq(get_records_for_sqlite_schema_table(image),
              LAMBDA r : r.table_name = sql.table)

\* main, a command starting with "SELECT ": sql is the statement as
\* SQL.from_query returns it for the lower-cased command line.
SelectOutput(image, sql) ==
    LET matching == SchemaMatches(image, sql)
    IN  IF matching = <<>> THEN Failed(<<>>)
        ELSE
            LET table_record == matching[1]
                page_number == table_record.rootpage - 1
            IN  IF page_number \notin 0..(Len(image.pages) - 1) THEN Failed(<<>>)
                ELSE IF image.pages[page_number + 1].hdr[0] # LEAF_TABLE_B_TREE
                THEN Failed(<<>>)
                ELSE IF "count(*)" \in Range(sql.columns)
                THEN Printed(<<CellCount(image.pages[page_number + 1])>>)
                ELSE
                    LET columns == table_record.sql
                        rows == SelectedRecords(image, page_number, columns, sql.where)
                    IN  Printed([i \in 1..Len(rows) |->
                                    ProjectLine(columns, rows[i], sql.columns)])

\* sys.argv[2].lower() reaches every name and every literal of the statement.
LowerStatement(stmt) ==
    [columns |-> [i \in 1..Len(stmt.columns) |-> Lower(stmt.columns[i])],
     table |-> Lower(stmt.table),
     where |-> IF stmt.where = Nothing THEN Nothing
               ELSE Some([col |-> Lower(stmt.where[1].col),
                          val |-> Lower(stmt.where[1].val)])]

-----------------------------------------------------------------------------
(* Images for the dispatcher: a schema page (page 1, a leaf), the table    *)
(* apples(id, name, color) rooted at page 2, and possibly other tables     *)
(* and an index on apples, each with an empty root page of its own.        *)

MaxRows == 3

AppleColumns == <<"id", "name", "color">>

\* The name stored with each rowid.
NameOf(r) ==
    CASE r = 1 -> "fuji" [] r = 2 -> "gala" [] r = 3 -> "honey" [] OTHER -> "idared"

Colors == {"red", "Red", "pink"}

\* A row of apples: the INTEGER PRIMARY KEY column is stored as NULL.
AppleCell(r, color) ==
    [size |-> 3, rowid |-> r, payload |-> <<"", NameOf(r), color>>]

SchemaCell(i, type, name, tbl_name, rootpage, columns) ==
    [size |-> 5, rowid |-> i,
     payload |-> <<type, name, tbl_name, rootpage, columns>>]

\* The schema records of each variant, in creation order, given the number
\* of the first page after the pages of apples.
SchemaVariants == {"one", "three", "indexed", "mixed"}

SchemaCells(variant, free) ==
    CASE variant = "one" ->
            <<SchemaCell(1, "table", "apples", "apples", 2, AppleColumns)>>
      [] variant = "three" ->
            <<SchemaCell(1, "table", "pears", "pears", free, <<"id", "name">>),
              SchemaCell(2, "table", "apples", "apples", 2, AppleColumns),
              SchemaCell(3, "table", "oranges", "oranges", free + 1, <<"id", "name">>)>>
      [] variant = "indexed" ->
            <<SchemaCell(1, "table", "apples", "apples", 2, AppleColumns),
              SchemaCell(2, "index", "idx_apples_color", "apples", free, <<"color">>)>>
      [] OTHER ->
            <<SchemaCell(1, "table", "oranges", "oranges", free, <<"id", "name">>),
              SchemaCell(2, "table", "apples", "apples", 2, AppleColumns),
              SchemaCell(3, "index", "idx_apples_color", "apples", free + 1, <<"color">>)>>

\* The root pages of the other tables and of the index: empty leaves.
OtherPages(variant, free, layout) ==
    CASE variant = "one" -> <<>>
      [] variant = "three" ->
            <<MakePage(LEAF_TABLE_B_TREE, <<>>, 0, layout, free - 1),
              MakePage(LEAF_TABLE_B_TREE, <<>>, 0, layout, free)>>
      [] variant = "indexed" ->
            <<MakePage(LEAF_INDEX_B_TREE, <<>>, 0, layout, free - 1)>>
      [] OTHER ->
            <<MakePage(LEAF_TABLE_B_TREE, <<>>, 0, layout, free - 1),
              MakePage(LEAF_INDEX_B_TREE, <<>>, 0, layout, free)>>

\* The pages of apples: a leaf root when split = 0, else an interior root
\* (page 2) over the leaves with the rows 1..split (page 3) and the rest
\* (page 4).
ApplePages(cells, split, layout) ==
    IF split = 0 THEN <<MakePage(LEAF_TABLE_B_TREE, cells, 0, layout, 1)>>
    ELSE <<MakePage(INTERIOR_TABLE_B_TREE, <<[child |-> 3, rowid |-> split]>>, 4,
                    layout, 1),
           MakePage(LEAF_TABLE_B_TREE, SubSeq(cells, 1, split), 0, layout, 2),
           MakePage(LEAF_TABLE_B_TREE, SubSeq(cells, split + 1, Len(cells)), 0,
                    layout, 3)>>

\* Page sizes 512 and 4096 as the file bytes 16 and 17.
PageSizeBytes == {<<2, 0>>, <<16, 0>>}

MainImage(variant, colors, split, layout, size) ==
    LET cells == [r \in 1..Len(colors) |-> AppleCell(r, colors[r])]
        apples == ApplePages(cells, split, layout)
        free == 2 + Len(apples)
    IN  [hdr16 |-> size[1], hdr17 |-> size[2], root |-> 2,
         pages |-> <<MakePage(LEAF_TABLE_B_TREE, SchemaCells(variant, free), 0,
                              layout, 0)>>
                   \o apples \o OtherPages(variant, free, layout)]

MainImages ==
    UNION {{MainImage(variant, colors, split, layout, size) :
                variant \in SchemaVariants,
                colors \in [1..n -> Colors],
                split \in 0..(IF n = 0 THEN 0 ELSE n - 1),
                layout \in Layouts,
                size \in PageSizeBytes} : n \in 0..MaxRows}

\* The statements of the SELECT commands, as the user types them.
Statements ==
    [columns : {<<"name">>, <<"name", "color">>, <<"color", "name">>,
                <<"id", "name">>, <<"count(*)">>},
     table : {"apples", "pears"},
     where : {Nothing, Some([col |-> "color", val |-> "red"]),
              Some([col |-> "color", val |-> "RED"]),
              Some([col |-> "color", val |-> "pink"]),
              Some([col |-> "name", val |-> "fuji"])}]

-----------------------------------------------------------------------------
(* Specification of the dispatcher: one command per run.                   *)

InitMain ==
    /\ db \in MainImages
    /\ call = NoCall
    /\ out = None

DbInfo ==
    /\ call = NoCall
    /\ call' = [op |-> "dbinfo"]
    /\ out' = DbInfoOutput(db)
    /\ UNCHANGED db

Tables ==
    /\ call = NoCall
    /\ call' = [op |-> "tables"]
    /\ out' = TablesOutput(db)
    /\ UNCHANGED db

Select ==
    /\ call = NoCall
    /\ \E stmt \in Statements :
        /\ call' = [op |-> "select", stmt |-> stmt]
        /\ out' = SelectOutput(db, LowerStatement(stmt))
    /\ UNCHANGED db

NextMain == DbInfo \/ Tables \/ Select

SpecMain == InitMain /\ [][NextMain]_vars

-----------------------------------------------------------------------------
(* Properties of the dispatcher.                                           *)

\* The schema records of an image, read off page 1.
SchemaEntries(image) ==
    {SchemaRecord(image.pages[1].cells[o].payload) : o \in DOMAIN image.pages[1].cells}

\* The rows stored in the leaves under the root of apples, as column maps
\* keyed by rowid.
StoredRow(image, r) ==
    LET rec == CHOOSE x \in StoredRecords(image) : x[1] = r
    IN  [id |-> rec[2][1], name |-> rec[2][2], color |-> rec[2][3]]

\* The rowid whose row carries a name (names are unique in these images).
RowidOfName(name) == CHOOSE r \in 1..(MaxRows + 1) : NameOf(r) = name

\* C2 (as claimed): a full table scan emits the rows in strictly ascending
\* rowid order, whatever the order of the cell offsets inside the page.
\* Stated on SELECT name FROM apples, whose lines are the names.
C2_ScanAscending ==
    (/\ call.op = "select"
     /\ call.stmt.columns = <<"name">>
     /\ call.stmt.table = "apples"
     /\ call.stmt.where = Nothing
     /\ ~out.err) =>
        \A i \in 1..(Len(out.lines) - 1) :
            RowidOfName(out.lines[i]) < RowidOfName(out.lines[i + 1])

\* What the scan of app/main.py does: it emits the rows in ascending order
\* of their cell offsets.
ScanInOffsetOrder ==
    (/\ call.op = "select"
     /\ call.stmt.columns = <<"name">>
     /\ call.stmt.table = "apples"
     /\ call.stmt.where = Nothing
     /\ ~out.err) =>
        LET page == db.pages[2]
            OffsetOf(name) ==
                CHOOSE o \in DOMAIN page.cells : page.cells[o].payload[2] = name
        IN  \A i \in 1..(Len(out.lines) - 1) :
                OffsetOf(out.lines[i]) < OffsetOf(out.lines[i + 1])

\* The sum of cell_count over the leaf-table pages under the root of apples.
LeafCellTotal(image) ==
    LET leaves == SortedSeq(LeavesUnderRoot(image))
        Sum[i \in 0..Len(leaves)] ==
            IF i = 0 THEN 0 ELSE Sum[i - 1] + CellCount(image.pages[leaves[i]])
    IN  Sum[Len(leaves)]

\* C5 (as claimed): SELECT COUNT(*) FROM t prints the sum of cell_count over
\* every leaf-table page reachable from t's root, for any tree shape.
\* Stated on the images whose schema holds tables only.
C5_CountAllLeaves ==
    (/\ call.op = "select"
     /\ call.stmt.columns = <<"count(*)">>
     /\ call.stmt.table = "apples"
     /\ \A e \in SchemaEntries(db) : e.record_type = "table") =>
        /\ ~out.err
        /\ out.lines = <<LeafCellTotal(db)>>

\* What the code does: the count is printed when the root is a leaf, and
\* the command fails when the root is an interior page.
CountOnLeafRootOnly ==
    (/\ call.op = "select"
     /\ call.stmt.columns = <<"count(*)">>
     /\ call.stmt.table = "apples"
     /\ \A e \in SchemaEntries(db) : e.record_type = "table") =>
        IF db.pages[2].hdr[0] = LEAF_TABLE_B_TREE
        THEN ~out.err /\ out.lines = <<LeafCellTotal(db)>>
        ELSE out.err /\ out.lines = <<>>

\* Does a stored row satisfy the statement's WHERE clause, both sides
\* lower-cased?
Matches(row, where) ==
    \/ where = Nothing
    \/ Lower(row[where[1].col]) = Lower(where[1].val)

\* C6 (as claimed): a row of the table is emitted if and only if it
\* satisfies the WHERE clause with both sides lower-cased, and every row is
\* emitted when there is no WHERE clause.  Stated on SELECT name FROM apples
\* [WHERE ...], whose lines are the names, on the images whose schema holds
\* tables only.
C6_FilterExact ==
    (/\ call.op = "select"
     /\ call.stmt.columns = <<"name">>
     /\ call.stmt.table = "apples"
     /\ \A e \in SchemaEntries(db) : e.record_type = "table") =>
        Range(out.lines) =
            {StoredRow(db, r).name :
                r \in {x \in StoredRowids(db) : Matches(StoredRow(db, x), call.stmt.where)}}

\* What holds of the code: on a table whose root is a leaf, found through a
\* schema that holds tables only, exactly the matching rows are emitted.
FilterOnLeafRoot ==
    (/\ call.op = "select"
     /\ call.stmt.columns = <<"name">>
     /\ call.stmt.table = "apples"
     /\ db.pages[2].hdr[0] = LEAF_TABLE_B_TREE
     /\ \A e \in SchemaEntries(db) : e.record_type = "table") =>
        /\ ~out.err
        /\ Len(out.lines) = Cardinality(Range(out.lines))
        /\ Range(out.lines) =
              {StoredRow(db, r).name :
                  r \in {x \in StoredRowids(db) :
                            Matches(StoredRow(db, x), call.stmt.where)}}

\* The line the claim describes for a row: the values of the requested
\* columns, in the order requested, joined with "|".
RequestedLine(row, columns) ==
    Join("|", [i \in 1..Len(columns) |-> row[columns[i]]])

\* The rowids of the rows a completed SELECT emitted, in the order read:
\* the rows of the root leaf in offset order that pass the filter.
EmittedRows(image, stmt) ==
    SelectedRecords(image, 1, AppleColumns, LowerStatement(stmt).where)

\* C7: every line a SELECT emits holds the values of exactly the requested
\* columns, in the order the user wrote them, joined with "|", and there is
\* one line per emitted row.
C7_Projection ==
    (/\ call.op = "select"
     /\ call.stmt.columns # <<"count(*)">>
     /\ call.stmt.table = "apples"
     /\ ~out.err) =>
        LET rows == EmittedRows(db, call.stmt)
        IN  out.lines = [i \in 1..Len(rows) |-> RequestedLine(rows[i], call.stmt.columns)]

\* Two lines of SELECT color, name: the user's order differs from the
\* declaration order.
C7_Witness ==
    /\ call.op = "select"
    /\ call.stmt.columns = <<"color", "name">>
    /\ ~out.err
    /\ Len(out.lines) >= 2
    /\ out.lines[1] = "pink|fuji"

\* C8 (as claimed): .tables prints the tbl_name of exactly the schema
\* records of type "table", sorted ascending and joined with single spaces.
C8_TablesOnlyTables ==
    call.op = "tables" =>
        LET names == {e.table_name : e \in {x \in SchemaEntries(db) : x.record_type = "table"}}
            sorted == SortedSeq({StrRank(x) : x \in names})
        IN  out.lines = <<Join(" ", [i \in 1..Len(sorted) |-> StringOrder[sorted[i]]])>>

\* What the code does: it prints the tbl_name of every schema record, the
\* index records included, sorted and joined with spaces.
TablesListsEveryRecord ==
    call.op = "tables" =>
        LET names == TableNames(get_records_for_sqlite_schema_table(db))
            ranks == SortedSeq({StrRank(x) : x \in Range(names)})
        IN  /\ ~out.err
            /\ Len(out.lines) = 1
            /\ \A e \in SchemaEntries(db) : e.table_name \in Range(names)
            /\ Len(names) = Cardinality(DOMAIN db.pages[1].cells)

-----------------------------------------------------------------------------
(* Specification of the codec alone: the sources are all byte strings over *)
(* a small alphabet, up to MaxSrcLen bytes.                                *)

MaxSrcLen == 9

\* 0x47 ends a varint, 0x81 and 0xFF continue it.
SrcBytes == {71, 129, 255}

\* Sources: every byte string over SrcBytes (complete varints, varints
\* followed by further bytes, truncated varints) and the two one-byte
\* sources of tests/test_parsers.py.
Sources ==
    UNION {[1..n -> SrcBytes] : n \in 1..MaxSrcLen} \cup {<<127>>, <<85>>}

InitVarint ==
    /\ db = None
    /\ call = NoCall
    /\ out = None

DecodeVarint ==
    /\ call = NoCall
    /\ \E src \in Sources :
        /\ call' = [op |-> "varint", source |-> src]
        /\ out' = Varint_from_data(src)
        /\ UNCHANGED db

NextVarint == DecodeVarint

SpecVarint == InitVarint /\ [][NextVarint]_vars

-----------------------------------------------------------------------------
(* Properties of the codec.                                                *)

\* The position of the terminating byte of a source: the first byte with
\* the high bit clear (0 when there is none).
TermPos(source) ==
    IF \E i \in 1..Len(source) : source[i] < 128
    THEN CHOOSE i \in 1..Len(source) :
            source[i] < 128 /\ \A j \in 1..(i - 1) : source[j] >= 128
    ELSE 0

\* The big-endian concatenation of the low 7 bits of the first k bytes.
Low7Concat(source, k) ==
    [j \in 1..(7 * k) |->
        LET byte == source[((j - 1) \div 7) + 1]
            bit == 6 - ((j - 1) % 7)
        IN  ((byte % 128) \div (2 ^ bit)) % 2]

\* C10: when the terminating byte is at position k <= 8, the decoded value
\* is the concatenation of the low 7 bits of the first k bytes and
\* bytes_length is k; the bytes after the terminating byte do not matter;
\* [0x7F] decodes to (127, 1) and [0x81, 0x47] to (199, 2).
C10_VarintShort ==
    (call.op = "varint" /\ TermPos(call.source) \in 1..8) =>
        LET k == TermPos(call.source)
        IN  /\ ~out.err
            /\ out.bytes_length = k
            /\ StripZeros(out.value) = StripZeros(Low7Concat(call.source, k))
            /\ out = Varint_from_data(SubSeq(call.source, 1, k))
            /\ call.source = <<127>> => BitsToNat(out.value) = 127
            /\ call.source = <<85>> => BitsToNat(out.value) = 85
            /\ SubSeq(call.source, 1, k) = <<129, 71>> => BitsToNat(out.value) = 199

\* An eight-byte varint followed by one more byte.
C10_Witness ==
    /\ call.op = "varint"
    /\ TermPos(call.source) = 8
    /\ Len(call.source) = 9
    /\ out.bytes_length = 8
    /\ Len(out.value) = 56

\* The sources whose first eight bytes all have the high bit set and that
\* hold a ninth byte.
NineByteSource(source) ==
    Len(source) >= 9 /\ \A i \in 1..8 : source[i] >= 128

\* C11: when the first eight bytes all have the high bit set, a ninth byte
\* is consumed and all 8 of its bits are taken: the value is the 56
\* accumulated bits followed by the 8 bits of the ninth byte, and
\* bytes_length is 9.
C11_NinthByteAllBits ==
    (call.op = "varint" /\ NineByteSource(call.source)) =>
        /\ ~out.err
        /\ out.bytes_length = 9
        /\ StripZeros(out.value) =
              StripZeros(Low7Concat(call.source, 8) \o Bits(call.source[9], 8))

\* What the loop does with the ninth byte: it is consumed, and its low 7
\* bits are appended to the 56 accumulated bits like those of any byte.
NinthByteLow7 ==
    (call.op = "varint" /\ NineByteSource(call.source)) =>
        /\ ~out.err
        /\ out.bytes_length = 9
        /\ out.value = Low7Concat(call.source, 9)

-----------------------------------------------------------------------------
(* Record format: app/records.py (RecordFormat.parse_header and the two    *)
(* from_record), app/parsers.py (the decoders main uses) and app/parser.py *)
(* (Record.from_data), on the bytes of a record.                           *)

\* The values a decoded column can be: a str (its code points), an int, or
\* the bytes themselves.
PyStr(cps) == [type |-> "str", cps |-> cps]
PyInt(v) == [type |-> "int", v |-> v]
PyBytes(b) == [type |-> "bytes", bytes |-> b]

\* A UTF-8 continuation byte.
IsCont(b) == b \in 128..191

RECURSIVE Utf8CodePoints(_)
\* bytes.decode(): the code points of a strict UTF-8 byte string, or
\* <<-1>> at the first byte that makes UnicodeDecodeError.  The bytes
\* below 128 before the first multi-byte sequence are their own code
\* points.
Utf8CodePoints(b) ==
    IF \A i \in 1..Len(b) : b[i] < 128 THEN b
    ELSE
        LET k == CHOOSE i \in 1..Len(b) :
                    b[i] >= 128 /\ \A j \in 1..(i - 1) : b[j] < 128
            b1 == b[k]
            Has(n) == Len(b) >= k + n - 1 /\ \A i \in 1..(n - 1) : IsCont(b[k + i])
            ascii == SubSeq(b, 1, k - 1)
        IN  IF b1 \in 194..223 /\ Has(2)
            THEN ascii \o <<(b1 - 192) * 64 + (b[k + 1] - 128)>>
                 \o Utf8CodePoints(SliceFrom(b, k + 1))
            ELSE IF /\ b1 \in 224..239 /\ Has(3)
                    /\ (b1 = 224 => b[k + 1] >= 160)
                    /\ (b1 = 237 => b[k + 1] <= 159)
            THEN ascii \o <<(b1 - 224) * 4096 + (b[k + 1] - 128) * 64 + (b[k + 2] - 128)>>
                 \o Utf8CodePoints(SliceFrom(b, k + 2))
            ELSE IF /\ b1 \in 240..244 /\ Has(4)
                    /\ (b1 = 240 => b[k + 1] >= 144)
                    /\ (b1 = 244 => b[k + 1] <= 143)
            THEN ascii \o <<(b1 - 240) * 262144 + (b[k + 1] - 128) * 4096
                            + (b[k + 2] - 128) * 64 + (b[k + 3] - 128)>>
                 \o Utf8CodePoints(SliceFrom(b, k + 3))
            ELSE ascii \o <<-1>>

\* bytes.decode(): a str, or UnicodeDecodeError.
Utf8Decode(b) ==
    LET cps == Utf8CodePoints(b)
    IN  IF -1 \in Range(cps) THEN [raise |-> TRUE, value |-> PyStr(<<>>)]
        ELSE [raise |-> FALSE, value |-> PyStr(cps)]

HeaderError == [raise |-> TRUE, offset |-> 0, serial_types |-> <<>>]

\* One pass of the while loop of parse_header on the loop variables
\* [raise, total_bytes_read, serial_types]: nothing once the loop has ended
\* (the condition total_bytes_read < record_header.value - 1 is false, or an
\* exception was raised), else one serial-type varint read at
\* data[offset + total_bytes_read:] and decoded.
HeaderLoopBody(data, offset, header_value, s) ==
    IF s.raise \/ ~(s.total_bytes_read < header_value - 1) THEN s
    ELSE
        LET piece == SliceFrom(data, offset + s.total_bytes_read)
            serial_type_varint == Varint_from_data(piece)
            st == IF serial_type_varint.err THEN Raise
                  ELSE SerialType_decode(BitsToNat(serial_type_varint.value))
        IN  IF st.raise
            THEN [raise |-> TRUE, total_bytes_read |-> s.total_bytes_read,
                  serial_types |-> s.serial_types]
            ELSE [raise |-> FALSE,
                  total_bytes_read |-> s.total_bytes_read + serial_type_varint.bytes_length,
                  serial_types |-> Append(s.serial_types, st.value)]

RECURSIVE HeaderLoop(_, _, _, _, _)
\* The loop variables after n passes: the first half of the passes, then,
\* unless an exception ended the loop, the rest.
HeaderLoop(data, offset, header_value, s, n) ==
    IF n = 0 THEN s
    ELSE IF n = 1 THEN HeaderLoopBody(data, offset, header_value, s)
    ELSE
        LET half == HeaderLoop(data, offset, header_value, s, n \div 2)
        IN  IF half.raise THEN half
            ELSE HeaderLoop(data, offset, header_value, half, n - (n \div 2))

\* RecordFormat.parse_header(data) -> (offset, serial_types); the same lines
\* open every from_record of app/parsers.py and Record.from_data.  Every
\* pass of the loop reads at least one byte of data or raises, so the loop
\* has ended after Len(data) + 1 passes.
parse_header(data) ==
    LET record_header == Varint_from_data(data)
    IN  IF record_header.err THEN HeaderError
        ELSE
            LET loop == HeaderLoop(data, record_header.bytes_length,
                                   BitsToNat(record_header.value),
                                   [raise |-> FALSE, total_bytes_read |-> 0,
                                    serial_types |-> <<>>],
                                   Len(data) + 1)
            IN  IF loop.raise THEN HeaderError
                ELSE [raise |-> FALSE,
                      offset |-> record_header.bytes_length + loop.total_bytes_read,
                      serial_types |-> loop.serial_types]

RECURSIVE ColumnStart(_, _, _)
\* The offset at which the column with 0-based index k of a schema record
\* starts: `offset += bytes_length` after each of the columns before it.
ColumnStart(offset, serial_types, k) ==
    IF k = 0 THEN offset
    ELSE ColumnStart(offset, serial_types, k - 1) + serial_types[k]

\* A faulty variant of ColumnBytes: the columns are counted from the start
\* of the record, not from the end of its header.
ColumnBytes_FromRecordStart(data, header, k) ==
    LET start == ColumnStart(0, header.serial_types, k)
    IN  Slice(data, start, start + header.serial_types[k + 1])

\* data[offset : offset + bytes_length] of the column with 0-based index k.
ColumnBytes(data, header, k) ==
    LET start == ColumnStart(header.offset, header.serial_types, k)
    IN  Slice(data, start, start + header.serial_types[k + 1])

SchemaRecordError ==
    [raise |-> TRUE, record_type |-> PyStr(<<>>), name |-> PyStr(<<>>),
     table_name |-> PyStr(<<>>), rootpage |-> PyBytes(<<>>), sql |-> PyStr(<<>>)]

\* SqliteSchemaRecord.from_record(data): serial_types[0..4] are indexed, the
\* columns type, name, tbl_name and sql decoded, rootpage kept as bytes.
SqliteSchemaRecord_from_record(data) ==
    LET header == parse_header(data)
    IN  IF header.raise \/ Len(header.serial_types) < 5 THEN SchemaRecordError
        ELSE
            LET record_type == Utf8Decode(ColumnBytes(data, header, 0))
                name == Utf8Decode(ColumnBytes(data, header, 1))
                table_name == Utf8Decode(ColumnBytes(data, header, 2))
                sql == Utf8Decode(ColumnBytes(data, header, 4))
            IN  IF record_type.raise \/ name.raise \/ table_name.raise \/ sql.raise
                THEN SchemaRecordError
                ELSE [raise |-> FALSE, record_type |-> record_type.value,
                      name |-> name.value, table_name |-> table_name.value,
                      rootpage |-> PyBytes(ColumnBytes(data, header, 3)),
                      sql |-> sql.value]

RecordError ==
    [raise |-> TRUE, record_type |-> PyStr(<<>>), name |-> PyStr(<<>>),
     table_name |-> PyStr(<<>>)]

\* Record.from_data(data) of app/parser.py: the first three columns only.
Record_from_data(data) ==
    LET header == parse_header(data)
    IN  IF header.raise \/ Len(header.serial_types) < 3 THEN RecordError
        ELSE
            LET record_type == Utf8Decode(ColumnBytes(data, header, 0))
                name == Utf8Decode(ColumnBytes(data, header, 1))
                table_name == Utf8Decode(ColumnBytes(data, header, 2))
            IN  IF record_type.raise \/ name.raise \/ table_name.raise
                THEN RecordError
                ELSE [raise |-> FALSE, record_type |-> record_type.value,
                      name |-> name.value, table_name |-> table_name.value]

\* The dict a list of (column, value) assignments leaves: the last
\* assignment to a column stays.
DictOf(table_columns, values) ==
    [c \in Range(table_columns) |->
        values[CHOOSE i \in 1..Len(table_columns) :
                  /\ table_columns[i] = c
                  /\ \A j \in (i + 1)..Len(table_columns) : table_columns[j] # c]]

\* The place of an exception in a list of values.
RaiseMark == [type |-> "raise"]

RECURSIVE UserColumns(_, _, _, _, _, _)
\* The `for column_idx, column in enumerate(table_columns)` loop of
\* UserTableRecord.from_record of app/records.py from column_idx on: the
\* values assigned, ending with RaiseMark when serial_types[column_idx] is missing.
\* A column named "id" takes row_id and leaves the offset where it is; any
\* other takes the decoded bytes, or int.from_bytes of them (big-endian,
\* unsigned) when they are not UTF-8.
UserColumns(row_id, data, table_columns, serial_types, offset, column_idx) ==
    IF column_idx >= Len(table_columns) THEN <<>>
    ELSE IF table_columns[column_idx + 1] = "id"
    THEN <<PyInt(row_id)>>
         \o UserColumns(row_id, data, table_columns, serial_types, offset, column_idx + 1)
    ELSE IF column_idx >= Len(serial_types) THEN <<RaiseMark>>
    ELSE
        LET bytes_length == serial_types[column_idx + 1]
            bytes == Slice(data, offset, offset + bytes_length)
            text == Utf8Decode(bytes)
            value == IF text.raise THEN PyInt(FromBytes(bytes)) ELSE text.value
        IN  <<value>>
            \o UserColumns(row_id, data, table_columns, serial_types,
                           offset + bytes_length, column_idx + 1)

\* UserTableRecord.from_record(row_id, data, table_columns) of
\* app/records.py.
UserTableRecord_from_record(row_id, data, table_columns) ==
    LET header == parse_header(data)
    IN  IF header.raise THEN [raise |-> TRUE, columns |-> <<>>]
        ELSE
            LET values == UserColumns(row_id, data, table_columns,
                                      header.serial_types, header.offset, 0)
            IN  IF RaiseMark \in Range(values)
                THEN [raise |-> TRUE, columns |-> <<>>]
                ELSE [raise |-> FALSE, columns |-> DictOf(table_columns, values)]

RECURSIVE UserColumns_parsers(_, _, _, _, _)
\* The loop of UserTableRecord.from_record of app/parsers.py: every column,
\* "id" included, takes the decoded bytes of the serial type at its index;
\* bytes that are not UTF-8 raise UnicodeDecodeError.
UserColumns_parsers(data, table_columns, serial_types, offset, column_idx) ==
    IF column_idx >= Len(table_columns) THEN <<>>
    ELSE IF column_idx >= Len(serial_types) THEN <<RaiseMark>>
    ELSE
        LET bytes_length == serial_types[column_idx + 1]
            text == Utf8Decode(Slice(data, offset, offset + bytes_length))
        IN  IF text.raise THEN <<RaiseMark>>
            ELSE <<text.value>>
                 \o UserColumns_parsers(data, table_columns, serial_types,
                                        offset + bytes_length, column_idx + 1)

\* UserTableRecord.from_record(data, table_columns) of app/parsers.py.
UserTableRecord_from_record_parsers(data, table_columns) ==
    LET header == parse_header(data)
    IN  IF header.raise THEN [raise |-> TRUE, columns |-> <<>>]
        ELSE
            LET values == UserColumns_parsers(data, table_columns,
                                              header.serial_types, header.offset, 0)
            IN  IF RaiseMark \in Range(values)
                THEN [raise |-> TRUE, columns |-> <<>>]
                ELSE [raise |-> FALSE, columns |-> DictOf(table_columns, values)]

-----------------------------------------------------------------------------
(* Records as SQLite writes them (the record format quoted in              *)
(* RecordFormat.parse_header and the serial-type table of                  *)
(* app/serial_type.py): header-size varint, one serial-type varint per     *)
(* column, then the column bytes.                                          *)

\* The shortest varint of n (n < 2^14).
EncodeVarint(n) == IF n < 128 THEN <<n>> ELSE <<128 + (n \div 128), n % 128>>

\* Stored values: NULL, an integer, a text (its UTF-8 bytes).
Null == [kind |-> "null"]
StoredInt(v) == [kind |-> "int", v |-> v]
StoredText(b) == [kind |-> "text", bytes |-> b]

\* The width in bytes SQLite picks for an integer (here up to 24 bits).
IntWidth(v) ==
    IF v \in -128..127 THEN 1 ELSE IF v \in -32768..32767 THEN 2 ELSE 3

\* The serial type of a stored value.
SerialTypeOf(val) ==
    CASE val.kind = "null" -> 0
      [] val.kind = "int" ->
            IF val.v = 0 THEN 8 ELSE IF val.v = 1 THEN 9 ELSE IntWidth(val.v)
      [] OTHER -> 13 + 2 * Len(val.bytes)

\* The big-endian two's-complement bytes of v in w bytes.
TwosComplement(v, w) ==
    LET u == IF v < 0 THEN v + 256 ^ w ELSE v
    IN  [i \in 1..w |-> (u \div (256 ^ (w - i))) % 256]

\* The bytes of a stored value: none for NULL, 0 and 1.
ValueBytes(val) ==
    CASE val.kind = "null" -> <<>>
      [] val.kind = "int" ->
            IF val.v \in {0, 1} THEN <<>> ELSE TwosComplement(val.v, IntWidth(val.v))
      [] OTHER -> val.bytes

RECURSIVE Concat(_)
\* The concatenation of a sequence of byte strings.
Concat(seqs) ==
    IF seqs = <<>> THEN <<>>
    ELSE IF Len(seqs) = 1 THEN seqs[1]
    ELSE Concat(SubSeq(seqs, 1, Len(seqs) \div 2))
         \o Concat(SubSeq(seqs, (Len(seqs) \div 2) + 1, Len(seqs)))

\* The serial-type varints of a record.
SerialTypeBytes(vals) ==
    Concat([i \in 1..Len(vals) |-> EncodeVarint(SerialTypeOf(vals[i]))])

\* The header size: the serial-type varints and the size varint itself.
HeaderSize(vals) ==
    LET n == Len(SerialTypeBytes(vals))
    IN  IF n + 1 < 128 THEN n + 1 ELSE n + 2

\* The record of a row.
EncodeRecord(vals) ==
    EncodeVarint(HeaderSize(vals)) \o SerialTypeBytes(vals)
    \o Concat([i \in 1..Len(vals) |-> ValueBytes(vals[i])])

\* The offset of the first byte after the header, and of the column with
\* 1-based index i, in the record of a row.
BodyStart(vals) == HeaderSize(vals)
ColumnOffset(vals, i) ==
    BodyStart(vals) + Len(Concat([j \in 1..(i - 1) |-> ValueBytes(vals[j])]))

-----------------------------------------------------------------------------
(* Specification of the record decoders: one call per run, on the records  *)
(* below.                                                                  *)

\* The largest serial-type code decoded.
MaxCode == 140

\* The largest number of columns of a user-table row.
MaxCols == 2

\* record_data of tests/test_parsers.py.
TestRecordData ==
    <<
      7, 23, 27, 27, 1, 129, 71, 116, 97, 98, 108, 101, 111, 114, 97,
      110, 103, 101, 115, 111, 114, 97, 110, 103, 101, 115, 4, 67, 82,
      69, 65, 84, 69, 32, 84, 65, 66, 76, 69, 32, 111, 114, 97, 110,
      103, 101, 115, 10, 40, 10, 9, 105, 100, 32, 105, 110, 116, 101,
      103, 101, 114, 32, 112, 114, 105, 109, 97, 114, 121, 32, 107, 101,
      121, 32, 97, 117, 116, 111, 105, 110, 99, 114, 101, 109, 101, 110,
      116, 44, 10, 9, 110, 97, 109, 101, 32, 116, 101, 120, 116, 44, 10,
      9, 100, 101, 115, 99, 114, 105, 112, 116, 105, 111, 110, 32, 116,
      101, 120, 116, 10, 41, 80
    >>

\* The UTF-8 bytes of "table", "index", "oranges", "t" and "é".
TextTable == <<116, 97, 98, 108, 101>>
TextIndex == <<105, 110, 100, 101, 120>>
TextOranges == <<111, 114, 97, 110, 103, 101, 115>>
TextT == <<116>>
TextEAcute == <<195, 169>>

\* A CREATE statement of n bytes.
SqlText(n) == [i \in 1..n |-> 120]

\* sqlite_schema rows: type, name, tbl_name, rootpage, sql.  A statement of
\* 60 bytes has a two-byte serial type.
SchemaRows ==
    {<<StoredText(type), StoredText(name), StoredText(tbl_name),
       StoredInt(rootpage), StoredText(SqlText(n))>> :
        type \in {TextTable, TextIndex},
        name \in {TextOranges, TextT, TextEAcute},
        tbl_name \in {TextOranges, TextT, TextEAcute},
        rootpage \in {2, 200, 300},
        n \in {0, 3, 60}}

\* The row of the test record: table oranges, rootpage 4, and the CREATE
\* statement of 93 bytes; the test record has one more byte after it.
TestRow ==
    <<StoredText(TextTable), StoredText(TextOranges), StoredText(TextOranges),
      StoredInt(4), StoredText(SubSeq(TestRecordData, 28, 120))>>

\* The records handed to the schema decoders, each with the row it holds.
SchemaInputs ==
    {[vals |-> vals, data |-> EncodeRecord(vals)] : vals \in SchemaRows}
    \cup {[vals |-> TestRow, data |-> TestRecordData]}

\* The values of user-table columns: NULL, the integers of the zero-length
\* serial types, integers of one, two and three bytes (65 is "A" as a
\* byte, 200 and -1 are not UTF-8), texts.
StoredValues ==
    {Null, StoredInt(0), StoredInt(1), StoredInt(65), StoredInt(200),
     StoredInt(-1), StoredInt(300), StoredInt(70000),
     StoredText(TextT), StoredText(TextEAcute)}

UserRows == UNION {[1..n -> StoredValues] : n \in 1..MaxCols}

\* The declared columns of a table of n columns: no id column, or the id
\* column at any position.
OtherColumns == <<"name", "color", "size", "kind", "note">>
ColumnLists(n) ==
    {SubSeq(OtherColumns, 1, n)}
    \cup {[i \in 1..n |-> IF i = p THEN "id"
                          ELSE IF i < p THEN OtherColumns[i]
                          ELSE OtherColumns[i - 1]] : p \in 1..n}

RowIds == {1, 7}

\* A row of 126 columns, 125 of them NULL and the last a text: its header
\* is 128 bytes long and the header-size varint two bytes.
WideRow == [i \in 1..126 |-> IF i < 126 THEN Null ELSE StoredText(TextT)]

\* A record whose header-size field is one less than the header of the
\* row: the last serial-type varint runs past the declared size.
Overshooting(vals) ==
    <<HeaderSize(vals) - 1>> \o SliceFrom(EncodeRecord(vals), 1)

\* The records handed to parse_header: those of the rows above, the wide
\* row, the test record, records cut short, and overshooting headers of
\* the schema rows whose last serial type has two bytes.
HeaderInputs ==
    {EncodeRecord(vals) : vals \in SchemaRows \cup UserRows \cup {WideRow}}
    \cup {TestRecordData, <<>>, <<3, 15>>, <<2, 10, 0>>, <<2, 11, 0>>}
    \cup {Overshooting(vals) : vals \in {v \in SchemaRows : Len(v[5].bytes) = 60}}

InitRecord ==
    /\ db = None
    /\ call = NoCall
    /\ out = None

\* SQLiteSerialType.decode(code)
DecodeSerialType ==
    /\ call = NoCall
    /\ \E code \in 0..MaxCode :
        /\ call' = [op |-> "decode", code |-> code]
        /\ out' = SerialType_decode(code)
    /\ UNCHANGED db

\* RecordFormat.parse_header(data)
ParseHeader ==
    /\ call = NoCall
    /\ \E data \in HeaderInputs :
        /\ call' = [op |-> "parse_header", data |-> data]
        /\ out' = parse_header(data)
    /\ UNCHANGED db

\* SqliteSchemaRecord.from_record(data) and Record.from_data(data)
ParseSchemaRecord ==
    /\ call = NoCall
    /\ \E input \in SchemaInputs :
        /\ call' = [op |-> "schema_record", vals |-> input.vals, data |-> input.data]
        /\ out' = [from_record |-> SqliteSchemaRecord_from_record(input.data),
                   from_data |-> Record_from_data(input.data)]
    /\ UNCHANGED db

\* UserTableRecord.from_record of app/records.py and of app/parsers.py on
\* the record of a row.
ParseUserRecord ==
    /\ call = NoCall
    /\ \E vals \in UserRows :
        \E table_columns \in ColumnLists(Len(vals)), row_id \in RowIds :
            /\ call' = [op |-> "user_record", row_id |-> row_id, vals |-> vals,
                        data |-> EncodeRecord(vals), table_columns |-> table_columns]
            /\ out' = [records |-> UserTableRecord_from_record(
                                       row_id, EncodeRecord(vals), table_columns),
                       parsers |-> UserTableRecord_from_record_parsers(
                                       EncodeRecord(vals), table_columns)]
    /\ UNCHANGED db

NextRecord == DecodeSerialType \/ ParseHeader \/ ParseSchemaRecord \/ ParseUserRecord

SpecRecord == InitRecord /\ [][NextRecord]_vars

-----------------------------------------------------------------------------
(* Properties of the record decoders.                                      *)

\* The byte length the serial-type table gives a code other than 10, 11.
TableLength(code) ==
    CASE code = 0 -> 0
      [] code = 1 -> 1
      [] code = 2 -> 2
      [] code = 3 -> 3
      [] code = 4 -> 4
      [] code = 5 -> 6
      [] code = 6 -> 8
      [] code = 7 -> 8
      [] code = 8 -> 0
      [] code = 9 -> 0
      [] code >= 12 /\ code % 2 = 0 -> (code - 12) \div 2
      [] OTHER -> (code - 13) \div 2

\* C12: decode(code) returns the byte length of the serial-type table for
\* every code other than 10 and 11, and for the reserved codes 10 and 11 it
\* returns no value and fails.
C12_SerialTypeTable ==
    call.op = "decode" =>
        IF call.code \in {10, 11} THEN out.raise
        ELSE ~out.raise /\ out.value = TableLength(call.code)

\* decode(23) of scratch.py: a text of 5 bytes.
C12_Witness ==
    /\ call.op = "decode"
    /\ call.code = 23
    /\ out = Ret(5)

\* The code points of the texts stored: "é" is U+00E9, the other texts are
\* ASCII.
CodePointsOf(bytes) == IF bytes = TextEAcute THEN <<233>> ELSE bytes

\* The text of the column with 1-based index i of the record in call: the
\* bytes from the end of the header plus the lengths of the columns before
\* it, as long as the serial type of the column says.
ColumnText(i) ==
    LET start == ColumnOffset(call.vals, i)
        length == TableLength(SerialTypeOf(call.vals[i]))
    IN  PyStr(CodePointsOf(Slice(call.data, start, start + length)))

\* C13: the decoded type, name and tbl_name of a schema record are the
\* UTF-8 texts of the first, second and third column byte ranges, the first
\* starting right after the record header; the test record decodes to
\* 'table', 'oranges', 'oranges'.
C13_SchemaDecode ==
    call.op = "schema_record" =>
        /\ ~out.from_record.raise
        /\ ~out.from_data.raise
        /\ out.from_record.record_type = ColumnText(1)
        /\ out.from_record.name = ColumnText(2)
        /\ out.from_record.table_name = ColumnText(3)
        /\ out.from_data.record_type = ColumnText(1)
        /\ out.from_data.name = ColumnText(2)
        /\ out.from_data.table_name = ColumnText(3)
        /\ call.data = TestRecordData =>
              /\ EncodeRecord(call.vals) \o <<80>> = call.data
              /\ out.from_data.record_type = PyStr(<<116, 97, 98, 108, 101>>)
              /\ out.from_data.name = PyStr(<<111, 114, 97, 110, 103, 101, 115>>)
              /\ out.from_data.table_name = PyStr(<<111, 114, 97, 110, 103, 101, 115>>)

\* The test record decoded by both decoders.
C13_Witness ==
    /\ call.op = "schema_record"
    /\ call.data = TestRecordData
    /\ out.from_data.name = PyStr(TextOranges)
    /\ out.from_record.table_name = PyStr(TextOranges)
    /\ Len(out.from_record.sql.cps) = 93

\* The typed value of a stored value: an integer for the integer serial
\* types (0 and 1 for the zero-length types 8 and 9), a str for a text.
TypedValue(val) ==
    IF val.kind = "int" THEN PyInt(val.v) ELSE PyStr(CodePointsOf(val.bytes))

\* The calls that decode a row of a table without a column named id.
UserCallNoId == call.op = "user_record" /\ "id" \notin Range(call.table_columns)

\* C14: user-table record decoding yields typed values by serial type: an
\* integer column decodes to the big-endian signed integer of its bytes
\* (never to text), serial types 8 and 9 to the integers 0 and 1, a text
\* column to its UTF-8 text.  Stated for both decoders, on tables without
\* an id column.
C14_TypedValues ==
    UserCallNoId =>
        /\ ~out.records.raise
        /\ ~out.parsers.raise
        /\ \A i \in 1..Len(call.vals) :
              call.vals[i].kind # "null" =>
                  /\ out.records.columns[call.table_columns[i]] = TypedValue(call.vals[i])
                  /\ out.parsers.columns[call.table_columns[i]] = TypedValue(call.vals[i])

\* What the decoders do with a text column: both decode it as UTF-8 (the
\* decoder of app/parsers.py when no other column of the row makes it
\* raise).
TextColumnsDecode ==
    UserCallNoId =>
        /\ ~out.records.raise
        /\ \A i \in 1..Len(call.vals) :
              call.vals[i].kind = "text" =>
                  /\ out.records.columns[call.table_columns[i]] = TypedValue(call.vals[i])
                  /\ ~out.parsers.raise =>
                        out.parsers.columns[call.table_columns[i]] = TypedValue(call.vals[i])

\* What the decoders do with an integer column: the bytes are decoded as
\* UTF-8 text whenever they can be (no bytes give the empty text); when
\* they cannot, app/records.py yields their unsigned big-endian value and
\* app/parsers.py raises.
IntegerColumnsAsText ==
    UserCallNoId =>
        \A i \in 1..Len(call.vals) :
            call.vals[i].kind = "int" =>
                LET bytes == ValueBytes(call.vals[i])
                    text == Utf8Decode(bytes)
                    value == out.records.columns[call.table_columns[i]]
                IN  /\ ~text.raise => value = text.value
                    /\ text.raise => value = PyInt(FromBytes(bytes)) /\ out.parsers.raise

\* The header-size varint of the record in call and the size it declares.
SizeVarint == Varint_from_data(call.data)
DeclaredSize == BitsToNat(SizeVarint.value)

\* The serial-type varints end exactly at the declared header size: the
\* header holds the size varint only, or its last byte ends a varint (the
\* serial-type varints of these records have at most two bytes).
HeaderFits ==
    \/ DeclaredSize = SizeVarint.bytes_length
    \/ /\ DeclaredSize > SizeVarint.bytes_length
       /\ DeclaredSize <= Len(call.data)
       /\ call.data[DeclaredSize] < 128

\* The calls of parse_header on a record whose header-size varint is there.
HeaderCall == call.op = "parse_header" /\ ~SizeVarint.err

\* C15: the number of bytes parse_header consumes equals the value of the
\* header-size varint, also when that varint is longer than one byte; when
\* the serial-type varints run past the declared header size, decoding ends
\* with an error instead of returning serial types.
C15_HeaderLength ==
    HeaderCall =>
        /\ ~out.raise => out.offset = DeclaredSize
        /\ ~HeaderFits => out.raise

\* What parse_header does when the header-size varint is one byte and the
\* serial-type varints end at the declared size: it consumes the header.
HeaderLengthOneByteSize ==
    (HeaderCall /\ SizeVarint.bytes_length = 1 /\ HeaderFits /\ ~out.raise) =>
        out.offset = DeclaredSize

\* What parse_header does with a header-size varint of two bytes: the loop
\* bound `record_header.value - 1` allows for one size byte only, so one
\* more varint is read from the column bytes.
HeaderLengthTwoByteSize ==
    (HeaderCall /\ SizeVarint.bytes_length = 2 /\ HeaderFits /\ ~out.raise) =>
        out.offset > DeclaredSize

-----------------------------------------------------------------------------
(* Files whose right edge is damaged: the images above with the right-most *)
(* pointer of one interior page either zero or the number of a page past   *)
(* the end of the file.  One traversal per run.                            *)

\* The image with bytes 8..11 of page p holding v.
WithRightmost(image, p, v) == [image EXCEPT !.pages[p].rm = v]

\* The index images of at most MaxEdgePages pages.
MaxEdgePages == 4
SmallIndexImages == {image \in IndexImages : Len(image.pages) <= MaxEdgePages}

EdgeImages ==
    UNION {{WithRightmost(image, p, v) :
                p \in InteriorPages(image), v \in {0, Len(image.pages) + 1}} :
           image \in TableImages \cup SmallIndexImages}

InitEdge ==
    /\ db \in EdgeImages
    /\ call = NoCall
    /\ out = None

\* A traversal of a table tree: full scan, rowid-directed descent or count.
EdgeWalk ==
    /\ PageTypeOf(db.pages[db.root]) = INTERIOR_TABLE_B_TREE
    /\ (FullScan \/ Lookup \/ CountCells)

\* A search of an index tree.
EdgeSearch ==
    /\ PageTypeOf(db.pages[db.root]) = INTERIOR_INDEX_B_TREE
    /\ SearchIndex

NextEdge == EdgeWalk \/ EdgeSearch

SpecEdge == InitEdge /\ [][NextEdge]_vars

-----------------------------------------------------------------------------
(* Properties of the traversals of damaged files.                          *)

\* The interior pages whose right-most pointer names a page past the end
\* of the file, and those whose right-most pointer is zero.
EofPages(image) ==
    {p \in InteriorPages(image) : image.pages[p].rm > Len(image.pages)}
ZeroPages(image) == {p \in InteriorPages(image) : image.pages[p].rm = 0}

\* C16: when a traversal follows a child pointer (here a right-most
\* pointer) to a page past the end of the file, the page read gives an
\* empty page and the traversal completes without error, that child having
\* no content: a full scan yields the records of the leaves that are there.
C16_EofChildEmpty ==
    (EofPages(db) # {} /\ call.op # "none") =>
        /\ ~out.err
        /\ call.op = "scan" => Range(Flatten(out.out)) = StoredRecords(db)

\* What the traversals do: Page.get_page builds a Page from the empty read
\* and Page.__init__ raises on data[0], so a full scan and a count, which
\* follow every pointer, end with an exception.
EofChildRaises ==
    (EofPages(db) # {} /\ call.op \in {"scan", "count"}) => out.err

\* C17: on an interior page (table or index) whose right-most pointer is
\* zero, every traversal (full scan, rowid-directed descent, index search)
\* takes it for no further children and finishes without raising.
C17_MissingRightmost ==
    (ZeroPages(db) # {} /\ call.op # "none") =>
        /\ ~out.err
        /\ call.op = "scan" => Range(Flatten(out.out)) = StoredRecords(db)

\* What holds of the table traversals: with a zero right-most pointer the
\* full scan, the count and the rowid-directed descent finish without
\* raising, and the full scan yields the records of the leaves still
\* linked.
MissingRightmostTableWalks ==
    (ZeroPages(db) # {} /\ call.op \in {"scan", "lookup", "count"}) =>
        /\ ~out.err
        /\ call.op = "scan" => Range(Flatten(out.out)) = StoredRecords(db)

\* What the index search does: when the search key is larger than every
\* key of an interior page whose right-most pointer is zero, it raises
\* ValueError.
MissingRightmostIndexRaises ==
    (/\ call.op = "search"
     /\ db.root \in ZeroPages(db)
     /\ \A e \in StoredEntries(db) : BytesLess(e[1], call.key)) => out.err

-----------------------------------------------------------------------------
(* Properties of the rowid-directed step.                                  *)

\* The rowids of the cells of an interior table page, in cell-pointer order.
CellRowIds(page) ==
    [i \in 1..Len(CellPointers(page)) |->
        GetRowId(page, CellPointers(page)[i]).value]

\* Are the cell rowids of the page ascending?
AscendingCells(page) ==
    \A i, j \in 1..Len(CellPointers(page)) :
        i < j => CellRowIds(page)[i] < CellRowIds(page)[j]

\* The child (1-based page number) the format prescribes for target R: the
\* left child of the smallest-index cell whose rowid is at least R, else
\* the right-most child.
PrescribedChild(page, R) ==
    LET atLeast == {i \in 1..Len(CellPointers(page)) : CellRowIds(page)[i] >= R}
        smallest == CHOOSE i \in atLeast : \A j \in atLeast : i <= j
    IN  IF atLeast = {} THEN RightmostPointer(page)[1]
        ELSE GetChildPointer(page, CellPointers(page)[smallest]).value

\* The page and target of a recorded step.
StepPage == GetPage(db, call.page - 1)
StepCall == call.op = "step" /\ AscendingCells(StepPage)

\* C18: the rowid-directed step on an interior table page with ascending
\* cell rowids raises no IndexError and descends into exactly one child:
\* the right-most child when the target is larger than the last rowid,
\* otherwise the left child of the smallest-index cell whose rowid is at
\* least the target; the descent of walk_btree from that page is the
\* descent from that child.
C18_DirectedStep ==
    StepCall =>
        /\ out = StepTo(PrescribedChild(StepPage, call.target) - 1)
        /\ walk_btree(StepPage, db, "RecordCollector", Some(call.target))
             = walk_btree(GetPage(db, PrescribedChild(StepPage, call.target) - 1),
                          db, "RecordCollector", Some(call.target))

\* A step that runs the binary search on a page of three or more cells and
\* ends on a cell other than the first: the target lies above the first
\* rowid and equals a later one.
C18_Witness ==
    /\ StepCall
    /\ Len(CellPointers(StepPage)) >= 3
    /\ CellRowIds(StepPage)[1] < call.target
    /\ \E i \in 2..Len(CellPointers(StepPage)) :
          CellRowIds(StepPage)[i] = call.target
    /\ out = StepTo(PrescribedChild(StepPage, call.target) - 1)

-----------------------------------------------------------------------------
(* Properties of choose_paths.                                             *)

\* The keys of the cells of the interior index page of a recorded call, in
\* cell-pointer order, as the record format denotes them.
PathsPage == GetPage(db, call.page - 1)
PageKeys ==
    [i \in 1..Len(CellPointers(PathsPage)) |->
        DenotedEntry(db.pages[call.page].cells[CellPointers(PathsPage)[i]].payload)[1]]

\* A recorded choose_paths call on a page whose keys are ascending.
PathsCall ==
    /\ call.op = "paths"
    /\ \A i, j \in DOMAIN PageKeys : i < j => ~BytesLess(PageKeys[j], PageKeys[i])

\* The 1-based positions of the keys larger than K, and of the keys equal
\* to K that precede the first larger key.
LargerKeys(K) == {i \in DOMAIN PageKeys : BytesLess(K, PageKeys[i])}
FirstLarger(K) == CHOOSE i \in LargerKeys(K) : \A j \in LargerKeys(K) : i <= j
EqualBefore(K) ==
    {i \in DOMAIN PageKeys :
        /\ PageKeys[i] = K
        /\ LargerKeys(K) # {} => i < FirstLarger(K)}

\* C19: choose_paths on an interior index page with ascending keys returns
\* [0] when K is below the first key, [-1] when K is above the last key,
\* and otherwise the indices of the keys equal to K that precede the first
\* larger key, ascending, followed by the index of the first larger key or
\* by -1 when there is none; no index is returned twice.
C19_ChoosePaths ==
    PathsCall =>
        LET K == call.key
            n == Len(PageKeys)
        IN  /\ ~out.raise
            /\ out.paths =
                 IF BytesLess(K, PageKeys[1]) THEN <<0>>
                 ELSE IF BytesLess(PageKeys[n], K) THEN <<-1>>
                 ELSE SortedSeq({i - 1 : i \in EqualBefore(K)})
                      \o (IF LargerKeys(K) = {} THEN <<-1>>
                          ELSE <<FirstLarger(K) - 1>>)
            /\ \A i, j \in DOMAIN out.paths : i # j => out.paths[i] # out.paths[j]

\* A call where two keys of the page equal K and a larger key follows:
\* three paths are returned.
C19_Witness ==
    /\ PathsCall
    /\ Cardinality(EqualBefore(call.key)) >= 2
    /\ LargerKeys(call.key) # {}
    /\ Len(out.paths) = 3

-----------------------------------------------------------------------------
(* Specification of the page accessors: one accessor call on one cell of   *)
(* one page of a table or index file per run.                              *)

InitPage ==
    /\ db \in TableImages \cup SmallIndexImages
    /\ call = NoCall
    /\ out = None

\* page.get_child_pointer(cell_pointer)
ChildPointerCall ==
    /\ call = NoCall
    /\ \E p \in DOMAIN db.pages :
        \E cell_pointer \in Range(CellPointers(db.pages[p])) :
            /\ call' = [op |-> "child_pointer", page |-> p, cell_pointer |-> cell_pointer]
            /\ out' = GetChildPointer(GetPage(db, p - 1), cell_pointer)
    /\ UNCHANGED db

\* page.get_row_id(cell_pointer)
RowIdCall ==
    /\ call = NoCall
    /\ \E p \in DOMAIN db.pages :
        \E cell_pointer \in Range(CellPointers(db.pages[p])) :
            /\ call' = [op |-> "row_id", page |-> p, cell_pointer |-> cell_pointer]
            /\ out' = GetRowId(GetPage(db, p - 1), cell_pointer)
    /\ UNCHANGED db

\* page.get_record_size(cell_pointer)
RecordSizeCall ==
    /\ call = NoCall
    /\ \E p \in DOMAIN db.pages :
        \E cell_pointer \in Range(CellPointers(db.pages[p])) :
            /\ call' = [op |-> "record_size", page |-> p, cell_pointer |-> cell_pointer]
            /\ out' = GetRecordSize(GetPage(db, p - 1), cell_pointer)
    /\ UNCHANGED db

NextPage == ChildPointerCall \/ RowIdCall \/ RecordSizeCall

SpecPage == InitPage /\ [][NextPage]_vars

-----------------------------------------------------------------------------
(* Properties of the page accessors.                                       *)

\* The type of the page of a recorded accessor call, and the cell called on.
CalledType == db.pages[call.page].hdr[0]
CalledCell == db.pages[call.page].cells[call.cell_pointer]
LeafTypes == {LEAF_TABLE_B_TREE, LEAF_INDEX_B_TREE}
IndexTypes == {INTERIOR_INDEX_B_TREE, LEAF_INDEX_B_TREE}

\* C20: an accessor invalid for the page's type raises and returns no
\* value (child_pointer on a leaf page, record_size on an interior page,
\* row_id on an index page); on a page of a valid type it returns the
\* value stored in the cell.
C20_AccessorErrors ==
    /\ call.op = "child_pointer" =>
          IF CalledType \in LeafTypes THEN out = Raise
          ELSE out = Ret(CalledCell.child)
    /\ call.op = "record_size" =>
          IF CalledType \notin LeafTypes THEN out = Raise
          ELSE out = Ret(CalledCell.size)
    /\ call.op = "row_id" =>
          IF CalledType \in IndexTypes THEN out = Raise
          ELSE out = Ret(CalledCell.rowid)

\* A record_size call on a cell of an interior index page: it raises.
C20_Witness ==
    /\ call.op = "record_size"
    /\ CalledType = INTERIOR_INDEX_B_TREE
    /\ out.raise

-----------------------------------------------------------------------------
(* Properties of the SELECT binding.                                       *)

\* The statement of a recorded SELECT as main sees it, and the schema
\* records stored in the cells of page 1.
BoundStatement == LowerStatement(call.stmt)
StoredSchema ==
    {SchemaRecord(db.pages[1].cells[o].payload) : o \in DOMAIN db.pages[1].cells}

\* A recorded SELECT on a table the schema holds a "table" record for.
SelectOnStoredTable ==
    /\ call.op = "select"
    /\ \E r \in StoredSchema :
          r.record_type = "table" /\ r.table_name = BoundStatement.table

\* The in-page offset of the schema cell holding a record.
SchemaOffset(r) ==
    CHOOSE o \in DOMAIN db.pages[1].cells :
        SchemaRecord(db.pages[1].cells[o].payload) = r

\* C21: for a SELECT on table t the schema record bound is the record of
\* type "table" with tbl_name = t, never an "index" record with tbl_name =
\* t, whatever the order of the cells in the schema page.
C21_BindsTableRecord ==
    SelectOnStoredTable =>
        /\ SchemaMatches(db, BoundStatement) # <<>>
        /\ SchemaMatches(db, BoundStatement)[1].record_type = "table"

\* What the binding does: it takes the record with tbl_name = t whose cell
\* lies at the lowest offset of the schema page, of whatever type.
BindsLowestOffset ==
    SelectOnStoredTable =>
        LET bound == SchemaMatches(db, BoundStatement)[1]
        IN  /\ bound \in StoredSchema
            /\ bound.table_name = BoundStatement.table
            /\ \A r \in StoredSchema :
                  r.table_name = BoundStatement.table =>
                      SchemaOffset(bound) <= SchemaOffset(r)

\* When the record bound is an index record, whose root is an index page,
\* the statement ends with the exception of the page-type test.
IndexBoundRaises ==
    (/\ SelectOnStoredTable
     /\ SchemaMatches(db, BoundStatement)[1].record_type = "index") => out.err

-----------------------------------------------------------------------------
(* Files as bytes: Page.get_page and the accessors of app/page.py,         *)
(* RecordCollector.visit_leaf of app/btree.py and RecordFormat.get_records *)
(* of app/records.py on the bytes of a file.  A file is [bytes]: bytes[o   *)
(* + 1] is the byte at file offset o.                                      *)

\* Database._get_page_size: f.seek(16), int.from_bytes(f.read(2), "big").
Database_page_size(database) == FromBytes(Slice(database.bytes, 16, 18))

\* Page.get_page(database, page_number): the blob read at offset 100 for
\* page_number 0 and at page_size * page_number otherwise; Page.__init__
\* raises on an empty blob and on an unknown type flag.
Page_get_page(database, page_number) ==
    LET offset == IF page_number = 0 THEN 100
                  ELSE Database_page_size(database) * page_number
        data == Slice(database.bytes, offset, offset + Database_page_size(database))
    IN  IF data = <<>> \/ data[1] \notin PageTypes THEN NoPage
        ELSE [raise |-> FALSE, data |-> data, page_number |-> page_number,
              type |-> data[1],
              header_size |-> IF data[1] \in {LEAF_TABLE_B_TREE, LEAF_INDEX_B_TREE}
                              THEN 8 ELSE 12]

\* Page.cell_count and Page.cell_pointers on the blob.
Page_cell_count(page) == FromBytes(Slice(page.data, 3, 5))
Page_cell_pointers(page) ==
    [i \in 1..Page_cell_count(page) |->
        FromBytes(Slice(page.data, page.header_size + (i - 1) * 2,
                        page.header_size + i * 2))]

\* The result of a cell read: the varints as integers, the payload bytes.
CellRaises == [raise |-> TRUE]
CellRead(size, rowid, payload) ==
    [raise |-> FALSE, size |-> size, rowid |-> rowid, payload |-> payload]

\* The three reads of a leaf-table cell from a byte source positioned at
\* the cell: the record-size varint, the rowid varint, then size bytes.
ReadCell(source) ==
    LET record_size_varint == Varint_from_data(source)
        rest == SliceFrom(source, record_size_varint.bytes_length)
        rowid_varint == Varint_from_data(rest)
    IN  IF record_size_varint.err \/ rowid_varint.err THEN CellRaises
        ELSE CellRead(BitsToNat(record_size_varint.value),
                      BitsToNat(rowid_varint.value),
                      Slice(rest, rowid_varint.bytes_length,
                            rowid_varint.bytes_length
                                + BitsToNat(record_size_varint.value)))

\* One turn of the loop of RecordFormat.get_records: the reads after
\* database_file.seek(database.page_size * page.page_number + cell_pointer).
FileCellRead(database, page, cell_pointer) ==
    ReadCell(SliceFrom(database.bytes,
                       Database_page_size(database) * page.page_number
                           + cell_pointer))

\* One turn of the loop of RecordCollector.visit_leaf: the reads from
\* page.data[cell_pointer:].
MemoryCellRead(page, cell_pointer) ==
    ReadCell(SliceFrom(page.data, cell_pointer))

\* Page.get_record_size and Page.get_row_id on the blob of a leaf table
\* page: the values of the varints, or an exception.
Page_get_record_size(page, cell_pointer) ==
    IF page.type \notin {LEAF_TABLE_B_TREE, LEAF_INDEX_B_TREE} THEN Raise
    ELSE LET v == Varint_from_data(SliceFrom(page.data, cell_pointer))
         IN  IF v.err THEN Raise ELSE Ret(BitsToNat(v.value))

Page_get_row_id(page, cell_pointer) ==
    IF page.type = INTERIOR_TABLE_B_TREE
    THEN LET v == Varint_from_data(SliceFrom(page.data, cell_pointer + 4))
         IN  IF v.err THEN Raise ELSE Ret(BitsToNat(v.value))
    ELSE IF page.type = LEAF_TABLE_B_TREE
    THEN LET record_size == Varint_from_data(SliceFrom(page.data, cell_pointer))
             v == Varint_from_data(
                      SliceFrom(page.data, cell_pointer + record_size.bytes_length))
         IN  IF record_size.err \/ v.err THEN Raise ELSE Ret(BitsToNat(v.value))
    ELSE Raise

\* RecordCollector().visit_leaf(page): (rowid, payload) per cell pointer, or
\* an exception.
RecordCollector_visit_leaf_data(page) ==
    LET cells == [i \in 1..Page_cell_count(page) |->
                     MemoryCellRead(page, Page_cell_pointers(page)[i])]
    IN  IF \E i \in DOMAIN cells : cells[i].raise THEN CellRaises
        ELSE [raise |-> FALSE,
              records |-> [i \in DOMAIN cells |-> <<cells[i].rowid, cells[i].payload>>]]

\* RecordFormat.get_records(database, page): the payload per cell pointer,
\* or an exception.
RecordFormat_get_records(database, page) ==
    LET cells == [i \in 1..Page_cell_count(page) |->
                     FileCellRead(database, page, Page_cell_pointers(page)[i])]
    IN  IF \E i \in DOMAIN cells : cells[i].raise THEN CellRaises
        ELSE [raise |-> FALSE,
              records |-> [i \in DOMAIN cells |-> cells[i].payload]]

-----------------------------------------------------------------------------
(* Specification of cell addressing: files of one or two leaf table pages  *)
(* of 512 bytes, as SQLite lays them out (page 1 starts at file offset 0,  *)
(* its b-tree header at offset 100; cell pointers count from the start of  *)
(* the page; cells fill the page from its end downward).                   *)

\* The largest number of cells of a page.
MaxAddrCells == 2

\* The page-size field of the file header: 512.
AddrPageSizeBytes == <<2, 0>>
AddrPageSize == FromBytes(AddrPageSizeBytes)

\* The records of schema rows and of user rows.
AddrSchemaRecords ==
    {TestRecordData,
     EncodeRecord(<<StoredText(TextIndex), StoredText(TextT),
                    StoredText(TextOranges), StoredInt(2), StoredText(SqlText(20))>>)}
AddrUserRecords ==
    {EncodeRecord(<<StoredText(TextT)>>),
     EncodeRecord(<<Null, StoredInt(300)>>),
     EncodeRecord(<<StoredInt(1), StoredText(TextEAcute)>>)}

\* A leaf-table cell: record size, rowid, record.
AddrCell(rowid, record) ==
    EncodeVarint(Len(record)) \o EncodeVarint(rowid) \o record

\* The page-relative offset of the i-th cell (the rowids are 1, 2, ...)
\* when the cells fill the page from its end downward.
RECURSIVE AddrOffset(_, _)
AddrOffset(records, i) ==
    (IF i = 1 THEN AddrPageSize ELSE AddrOffset(records, i - 1))
        - Len(AddrCell(i, records[i]))

\* The b-tree header and the pointer array of a leaf table page.
AddrHeader(records) ==
    LET k == Len(records)
        start == IF k = 0 THEN AddrPageSize ELSE AddrOffset(records, k)
    IN  <<LEAF_TABLE_B_TREE, 0, 0, k \div 256, k % 256,
          start \div 256, start % 256, 0>>
        \o Concat([i \in 1..k |->
                      <<AddrOffset(records, i) \div 256, AddrOffset(records, i) % 256>>])

\* The pieces of a page whose first byte is at file offset base and whose
\* b-tree header is at file offset header: where each run of bytes lies.
AddrPieces(records, base, header) ==
    {[at |-> header, bytes |-> AddrHeader(records)]}
    \cup {[at |-> base + AddrOffset(records, i), bytes |-> AddrCell(i, records[i])] :
             i \in 1..Len(records)}

\* The file of the given size made of the pieces, zero elsewhere.
AddrBytes(pieces, size) ==
    [o \in 1..size |->
        IF \E p \in pieces : o - 1 \in p.at..(p.at + Len(p.bytes) - 1)
        THEN LET p == CHOOSE q \in pieces : o - 1 \in q.at..(q.at + Len(q.bytes) - 1)
             IN  p.bytes[o - p.at]
        ELSE 0]

\* A file: the schema page, and the root page of a table when there is one.
AddrFile(schema, rows, pages) ==
    [bytes |->
        AddrBytes({[at |-> 16, bytes |-> AddrPageSizeBytes]}
                  \cup AddrPieces(schema, 0, 100)
                  \cup (IF pages = 2 THEN AddrPieces(rows, AddrPageSize, AddrPageSize)
                        ELSE {}),
                  pages * AddrPageSize),
     schema |-> schema, rows |-> rows]

AddrFiles ==
    {AddrFile(<<>>, <<>>, 1)}
    \cup UNION {UNION {{AddrFile(schema, rows, 2) :
                           schema \in [1..k -> AddrSchemaRecords],
                           rows \in [1..m -> AddrUserRecords]} :
                       k \in 0..MaxAddrCells} : m \in 0..MaxAddrCells}

InitAddr ==
    /\ db \in AddrFiles
    /\ call = NoCall
    /\ out = None

\* The pages of the file, by 0-based index.
AddrPageNumbers == 0..((Len(db.bytes) \div AddrPageSize) - 1)

\* Page.get_page(database, n), then RecordCollector().visit_leaf(page) and
\* RecordFormat.get_records(database, page).
CollectCells ==
    /\ call = NoCall
    /\ \E n \in AddrPageNumbers :
        /\ call' = [op |-> "collect", page |-> n]
        /\ out' = [memory |-> RecordCollector_visit_leaf_data(Page_get_page(db, n)),
                   file |-> RecordFormat_get_records(db, Page_get_page(db, n))]
    /\ UNCHANGED db

\* Page.get_page(database, n), then page.get_row_id and
\* page.get_record_size on one cell pointer of the page, beside the
\* file-positioned read of the same cell.
AccessCell ==
    /\ call = NoCall
    /\ \E n \in AddrPageNumbers :
        \E cell_pointer \in Range(Page_cell_pointers(Page_get_page(db, n))) :
            /\ call' = [op |-> "access", page |-> n, cell_pointer |-> cell_pointer]
            /\ out' = [row_id |-> Page_get_row_id(Page_get_page(db, n), cell_pointer),
                       record_size |->
                           Page_get_record_size(Page_get_page(db, n), cell_pointer),
                       file |-> FileCellRead(db, Page_get_page(db, n), cell_pointer)]
    /\ UNCHANGED db

NextAddr == CollectCells \/ AccessCell

SpecAddr == InitAddr /\ [][NextAddr]_vars

-----------------------------------------------------------------------------
(* Properties of cell addressing.                                          *)

\* The records stored on the page of a recorded call.
AddrStored == IF call.page = 0 THEN db.schema ELSE db.rows

\* The payloads of the (rowid, payload) pairs the in-memory read yields.
MemoryPayloads == [i \in DOMAIN out.memory.records |-> out.memory.records[i][2]]

\* C22: on every leaf table page, page 1 included, the in-memory accessors
\* decode the bytes the file-positioned read at page_size * n + p decodes:
\* RecordCollector.visit_leaf yields the payloads RecordFormat.get_records
\* yields, with the rowids stored, and get_row_id and get_record_size
\* return the rowid and the size the file-positioned read finds.
C22_SameAddressing ==
    /\ call.op = "collect" =>
          /\ ~out.memory.raise /\ ~out.file.raise
          /\ MemoryPayloads = out.file.records
          /\ \A i \in DOMAIN out.memory.records : out.memory.records[i][1] = i
    /\ call.op = "access" =>
          /\ ~out.file.raise
          /\ out.row_id = Ret(out.file.rowid)
          /\ out.record_size = Ret(out.file.size)

\* What holds of the file-positioned read: on every page it finds the
\* stored records, in key order.
FileReadFindsStored ==
    call.op = "collect" =>
        /\ ~out.file.raise
        /\ out.file.records = AddrStored

\* What holds of the in-memory read: on every page but page 1 it agrees
\* with the file-positioned read.
SameAddressingPastPage1 ==
    /\ (call.op = "collect" /\ call.page # 0) =>
          /\ ~out.memory.raise
          /\ MemoryPayloads = out.file.records
          /\ \A i \in DOMAIN out.memory.records : out.memory.records[i][1] = i
    /\ (call.op = "access" /\ call.page # 0) =>
          /\ out.row_id = Ret(out.file.rowid)
          /\ out.record_size = Ret(out.file.size)

\* What the in-memory read does on page 1: the blob starts at file offset
\* 100, so the cell pointer p is read at file offset 100 + p.
Page1ReadsPast100 ==
    (call.op = "access" /\ call.page = 0) =>
        LET shifted == Varint_from_data(SliceFrom(db.bytes, 100 + call.cell_pointer))
        IN  out.record_size =
                IF shifted.err THEN Raise ELSE Ret(BitsToNat(shifted.value))

-----------------------------------------------------------------------------
(* Properties of the column alignment of UserTableRecord.from_record.      *)

\* The value the decoder of app/records.py gives the bytes of one column:
\* their UTF-8 text, else their unsigned big-endian integer.
DecodedAt(data, offset, bytes_length) ==
    LET bytes == Slice(data, offset, offset + bytes_length)
    IN  IF Utf8Decode(bytes).raise THEN PyInt(FromBytes(bytes))
        ELSE Utf8Decode(bytes).value

\* A recorded call on a row, the stored length of its i-th value and the
\* 1-based positions of the columns named id.
UserCall == call.op = "user_record"
StoredLength(i) == Len(ValueBytes(call.vals[i]))
IdPositions == {i \in 1..Len(call.table_columns) : call.table_columns[i] = "id"}

\* C23: every declared column other than id is decoded from the byte range
\* that starts at the end of the header plus the byte lengths of all the
\* preceding columns, wherever the id column stands and also when the
\* stored value of the id column has bytes; the id column is replaced by
\* the rowid only when its stored value has no bytes.
C23_ColumnAlignment ==
    UserCall =>
        /\ ~out.records.raise
        /\ \A i \in 1..Len(call.vals) :
              out.records.columns[call.table_columns[i]] =
                  IF i \in IdPositions /\ StoredLength(i) = 0
                  THEN PyInt(call.row_id)
                  ELSE DecodedAt(call.data, ColumnOffset(call.vals, i), StoredLength(i))

\* What holds of the alignment: when the table has no id column, or the
\* stored value of its id column has no bytes, every other column is
\* decoded from its own byte range.
AlignedWhenIdEmpty ==
    (UserCall /\ \A p \in IdPositions : StoredLength(p) = 0) =>
        /\ ~out.records.raise
        /\ \A i \in 1..Len(call.vals) :
              i \notin IdPositions =>
                  out.records.columns[call.table_columns[i]] =
                      DecodedAt(call.data, ColumnOffset(call.vals, i), StoredLength(i))

\* What the decoder does: the id column takes the rowid whatever is stored
\* for it and the offset stays where it is, so a column after an id column
\* is decoded from a range that starts earlier by the stored length of the
\* id value.
IdBytesNotSkipped ==
    UserCall =>
        /\ ~out.records.raise
        /\ \A i \in 1..Len(call.vals) :
              out.records.columns[call.table_columns[i]] =
                  IF i \in IdPositions THEN PyInt(call.row_id)
                  ELSE LET skipped == {p \in IdPositions : p < i}
                           shift == IF skipped = {} THEN 0
                                    ELSE StoredLength(CHOOSE p \in skipped : TRUE)
                       IN  DecodedAt(call.data, ColumnOffset(call.vals, i) - shift,
                                     StoredLength(i))

=============================================================================
